---- MODULE Spec2Model ----
(***************************************************************************)
(* A model of the code_analyser retrieval and extraction core:             *)
(*   - ResultAggregator (src/src/search/result_aggregator.py)              *)
(*   - ConceptScorer    (src/src/search/concept_scorer.py)                 *)
(*   - QueryIntent      (src/src/search/query_intent.py)                   *)
(*   - SemanticSearch   (src/src/search/semantic_search.py)                *)
(*   - the language extractors (src/src/parser/*.py)                       *)
(*   - CodeIndexer      (src/src/indexer/code_indexer.py)                  *)
(*   - GenerationService (src/src/generation/generation_service.py)        *)
(*   - ConceptDetector  (src/src/models/code_concepts.py)                  *)
(*   - EmbeddingService (src/src/embeddings/embedding_service.py)          *)
(*                                                                         *)
(* Text is modelled as sequences of one-character strings so that          *)
(* trimming, splitting, key formatting and line slicing are computed the   *)
(* way the code computes them.  Python dict objects that are shared        *)
(* between lists are modelled as a heap (a sequence of records) and lists  *)
(* of references (sequences of indices into the heap).                     *)
(***************************************************************************)
EXTENDS Integers, Sequences, FiniteSets, TLC

VARIABLES
    \* ---- ResultAggregator ----
    results0,     \* the caller's list of result dicts as it was at call time
    results,      \* the same dict objects now (the aggregator mutates them in place)
    max_results,  \* argument of aggregate_results
    returned,     \* the list returned by the last call: references into results
    merge_arg,    \* the list that was passed to merge_context: references into results
    pre_merge,    \* the result dicts as they were when merge_context was called
    agg_pc        \* "start" | "deduplicated" | "aggregated" | "merged" | "aggregated_merged"

VARIABLES
    \* ---- ConceptScorer, and the scoring loop of SemanticSearch.search ----
    query_concepts,   \* concepts detected in the query (QueryAnalyzer.detect_concepts)
    result_concepts,  \* the hit's metadata["concepts"]: a comma-separated text
    distance,         \* the hit's distance, in 1/ScoreScale units, or NoDistance
    has_docstring,    \* bool(metadata["docstring"])
    semantic_score,   \* result["semantic_score"], in 1/ScoreScale units
    concept_score,    \* result["concept_score"], in 1/ScoreScale units
    final_score,      \* result["final_score"], in 1/FinalScale units
    score_pc          \* "start" | "scored"

VARIABLES
    \* ---- QueryIntent ----
    query,          \* the query text: a sequence of words (separated by whitespace)
    default_limit,  \* argument of adjust_search_params
    intent,         \* the dict detect_intent returned
    params,         \* the dict adjust_search_params returned
    intent_pc       \* "start" | "detected" | "adjusted"

VARIABLES
    \* ---- SemanticSearch ----
    search_query,   \* the query text, as words; " " is a run of white space
    limit,          \* the caller's limit, NoLimit when it is not given
    file_filter,    \* Nothing or Some(path)
    type_filter,    \* None or a unit type
    store,          \* the indexed units, each with its distance to the query
    retrieved,      \* number of hits the vector store returned
    final_results,  \* the list search() returned
    search_calls,   \* the calls search() made to the embedding service and the store
    store_where,    \* the filter_dict arguments of the calls to vector_store.search
    search_pc       \* "start" | "done" | "raised"

VARIABLES
    \* ---- parsers ----
    language,       \* "python" | "java" | "go" | "javascript"
    readable,       \* whether open() and read() of the file succeed
    source,         \* the text of the file, as characters
    file_imports,   \* the modules the file imports, as MetadataExtractor lists them
    units,          \* the code units parse_file returned
    parse_error,    \* the exception parse_file caught and logged, or None
    parse_pc        \* "start" | "parsed"

aggVars == <<results0, results, max_results, returned, merge_arg, pre_merge, agg_pc>>

scoreVars == <<query_concepts, result_concepts, distance, has_docstring,
               semantic_score, concept_score, final_score, score_pc>>

intentVars == <<query, default_limit, intent, params, intent_pc>>

searchVars == <<search_query, limit, file_filter, type_filter, store, retrieved,
                final_results, search_calls, store_where, search_pc>>

VARIABLES
    \* ---- CodeIndexer and the vector store ----
    fs,             \* the files: for each path whether it exists and what parse_file returns
    collection,     \* the records of the ChromaDB collection
    store_mode,     \* what collection.add does with an id it already holds
    parse_calls,    \* the paths parse_file was called with by the last operation
    embed_calls,    \* the unit lists generate_embeddings_batch was called for by it
    add_calls,      \* the unit lists add_code_units was called with by it
    index_result,   \* what the last operation returned or raised
    history,        \* the operations so far, each with the units it extracted
    index_pc        \* "start" | "indexed" | "changed" | "reindexed"

VARIABLES
    \* ---- GenerationService ----
    gen_provider,   \* self.provider
    gen_fallbacks,  \* self.fallback_providers
    gen_query,      \* the query to summarize for
    gen_results0,   \* the caller's result list as it was given
    gen_results,    \* the same list now
    gen_summary,    \* the text the last call returned
    gen_calls,      \* the providers the last call asked, in order
    gen_failing,    \* the providers that raised during the last call
    summaries       \* number of calls so far

parseVars == <<language, readable, source, file_imports, units, parse_error, parse_pc>>

indexVars == <<fs, collection, store_mode, parse_calls, embed_calls, add_calls,
               index_result, history, index_pc>>

genVars == <<gen_provider, gen_fallbacks, gen_query, gen_results0, gen_results,
             gen_summary, gen_calls, gen_failing, summaries>>

VARIABLES
    \* ---- ConceptDetector ----
    cd_language,     \* the language argument
    cd_code_a,       \* a text A, as characters
    cd_code_b,       \* a text B, as characters
    cd_concepts_a,   \* what detect_concepts returned for A
    cd_concepts_ab,  \* what detect_concepts returned for A + B
    cd_pc            \* "start" | "a" | "ab"

conceptVars == <<cd_language, cd_code_a, cd_code_b, cd_concepts_a, cd_concepts_ab, cd_pc>>

VARIABLES
    \* ---- EmbeddingService ----
    emb_configured,   \* settings.embedding_provider, lower-cased
    emb_keys,         \* the providers an API key is configured for
    emb_openai_model, \* settings.openai_embedding_model
    emb_batch_size,   \* settings.batch_size
    emb_provider,     \* self.provider
    emb_fallbacks,    \* self.fallback_providers
    emb_op,           \* the last operation: "generate_embedding" | "generate_embeddings_batch"
    emb_texts,        \* the number of texts the last operation was given
    emb_log,          \* the generate_embedding calls of the last operation, in order
    emb_vectors,      \* the vectors the last operation returned
    emb_raised,       \* whether the last operation raised
    emb_add,          \* what add_code_units does with the units and the vectors
    emb_ops           \* number of operations so far

embedVars == <<emb_configured, emb_keys, emb_openai_model, emb_batch_size, emb_provider,
               emb_fallbacks, emb_op, emb_texts, emb_log, emb_vectors, emb_raised,
               emb_add, emb_ops>>

vars == <<aggVars, scoreVars, intentVars, searchVars, parseVars, indexVars, genVars,
         conceptVars,
         embedVars>>

\* the variables each component leaves alone
notAgg == <<scoreVars, intentVars, searchVars, parseVars, indexVars, genVars,
    conceptVars,
    embedVars>>

notScore == <<aggVars, intentVars, searchVars, parseVars, indexVars, genVars,
    conceptVars,
    embedVars>>

notIntent == <<aggVars, scoreVars, searchVars, parseVars, indexVars, genVars,
    conceptVars,
    embedVars>>

notSearch == <<aggVars, scoreVars, intentVars, parseVars, indexVars, genVars,
    conceptVars,
    embedVars>>

notParse == <<aggVars, scoreVars, intentVars, searchVars, indexVars, genVars,
    conceptVars,
    embedVars>>

notIndex == <<aggVars, scoreVars, intentVars, searchVars, parseVars, genVars,
    conceptVars,
    embedVars>>

notConcept == <<aggVars, scoreVars, intentVars, searchVars, parseVars, indexVars, genVars,
    embedVars>>

notEmbed == <<aggVars, scoreVars, intentVars, searchVars, parseVars, indexVars, genVars,
    conceptVars>>

notGen == <<aggVars, scoreVars, intentVars, searchVars, parseVars, indexVars,
    conceptVars,
    embedVars>>

\* Python's None where a text or a record is expected
None == "None"

\* an Optional value: Nothing is None, Some(x) is the value x
Nothing == <<>>

Some(x) == <<x>>

\* a hit without a distance (result.get("distance") is None)
NoDistance == -1

----------------------------------------------------------------------------
(* Generic sequence helpers *)

Range(s) == {s[i] : i \in DOMAIN s}

Min(a, b) == IF a <= b THEN a ELSE b

Max(a, b) == IF a >= b THEN a ELSE b

\* Python s[lo:hi] with 0 <= lo, 0-based, hi exclusive (clipped to len(s))
Slice(s, lo, hi) == SubSeq(s, lo + 1, Min(hi, Len(s)))

\* All sequences over S of length 0..n
SeqUpTo(S, n) == UNION {[1..k -> S] : k \in 0..n}

----------------------------------------------------------------------------
(* Text helpers *)

\* characters str.strip() removes
IsSpace(c) == c \in {" ", "\t", "\n"}

RECURSIVE LStrip(_)
LStrip(s) == IF s = <<>> THEN s
             ELSE IF IsSpace(Head(s)) THEN LStrip(Tail(s)) ELSE s

RECURSIVE RStrip(_)
RStrip(s) == IF s = <<>> THEN s
             ELSE IF IsSpace(s[Len(s)]) THEN RStrip(SubSeq(s, 1, Len(s) - 1)) ELSE s

\* str.strip()
Strip(s) == RStrip(LStrip(s))

Digit(d) == CASE d = 0 -> "0" [] d = 1 -> "1" [] d = 2 -> "2" [] d = 3 -> "3"
              [] d = 4 -> "4" [] d = 5 -> "5" [] d = 6 -> "6" [] d = 7 -> "7"
              [] d = 8 -> "8" [] d = 9 -> "9"

\* str(n) for n >= 0, as the f-string formats it
RECURSIVE IntToStr(_)
IntToStr(n) == IF n < 10 THEN <<Digit(n)>>
               ELSE IntToStr(n \div 10) \o <<Digit(n % 10)>>

----------------------------------------------------------------------------
(* ResultAggregator *)

\* the 50-line window of merge_context
ContextWindow == 50

\* at most 3 related names per result
MaxRelated == 3

\* group[1:4]: at most 3 context items
MaxContextItems == 3

\* _deduplicate's signature tuple
Signature(r) == <<r.name, r.type, Strip(r.document)>>

\* _deduplicate over the references refs[i..]; seen is seen_signatures
RECURSIVE DedupFrom(_, _, _, _)
DedupFrom(h, refs, i, seen) ==
    IF i > Len(refs) THEN <<>>
    ELSE IF Signature(h[refs[i]]) \notin seen
         THEN <<refs[i]>> \o DedupFrom(h, refs, i + 1, seen \cup {Signature(h[refs[i]])})
         ELSE DedupFrom(h, refs, i + 1, seen)

\* a mutant of deduplicate: the document is compared untrimmed
RECURSIVE DedupRawFrom(_, _, _, _)
DedupRawFrom(h, refs, i, seen) ==
    LET sig == <<h[refs[i]].name, h[refs[i]].type, h[refs[i]].document>> IN
    IF i > Len(refs) THEN <<>>
    ELSE IF sig \notin seen
         THEN <<refs[i]>> \o DedupRawFrom(h, refs, i + 1, seen \cup {sig})
         ELSE DedupRawFrom(h, refs, i + 1, seen)

deduplicate_untrimmed(h, refs) == DedupRawFrom(h, refs, 1, {})

\* a mutant of deduplicate: the loop ends at the first duplicate it drops and
\* the rest of the list is kept as it is
RECURSIVE DedupOnceFrom(_, _, _, _)
DedupOnceFrom(h, refs, i, seen) ==
    IF i > Len(refs) THEN <<>>
    ELSE IF Signature(h[refs[i]]) \notin seen
         THEN <<refs[i]>> \o DedupOnceFrom(h, refs, i + 1, seen \cup {Signature(h[refs[i]])})
         ELSE SubSeq(refs, i + 1, Len(refs))

deduplicate_once(h, refs) == DedupOnceFrom(h, refs, 1, {})

\* ResultAggregator._deduplicate(results)
deduplicate(h, refs) == DedupFrom(h, refs, 1, {})

\* list.sort(key=final_score, reverse=True): stable, descending.
\* Insert x behind every element whose score is >= x's score.
RECURSIVE InsertDesc(_, _, _)
InsertDesc(h, sorted, x) ==
    IF sorted = <<>> THEN <<x>>
    ELSE IF h[Head(sorted)].final_score >= h[x].final_score
         THEN <<Head(sorted)>> \o InsertDesc(h, Tail(sorted), x)
         ELSE <<x>> \o sorted

RECURSIVE SortFrom(_, _, _, _)
SortFrom(h, refs, i, acc) ==
    IF i > Len(refs) THEN acc
    ELSE SortFrom(h, refs, i + 1, InsertDesc(h, acc, refs[i]))

\* a mutant of the sort: an element is put in front of the elements of equal
\* score, so ties come out in reverse input order (not stable)
RECURSIVE InsertUnstable(_, _, _)
InsertUnstable(h, sorted, x) ==
    IF sorted = <<>> THEN <<x>>
    ELSE IF h[Head(sorted)].final_score > h[x].final_score
         THEN <<Head(sorted)>> \o InsertUnstable(h, Tail(sorted), x)
         ELSE <<x>> \o sorted

RECURSIVE SortUnstableFrom(_, _, _, _)
SortUnstableFrom(h, refs, i, acc) ==
    IF i > Len(refs) THEN acc
    ELSE SortUnstableFrom(h, refs, i + 1, InsertUnstable(h, acc, refs[i]))

sort_unstable(h, refs) == SortUnstableFrom(h, refs, 1, <<>>)

sort_by_score(h, refs) == SortFrom(h, refs, 1, <<>>)

\* file_groups[file_path] after its sort: the deduplicated results of one
\* file, by final_score descending
file_group(h, dedup, path) ==
    LET same(x) == h[x].file_path = path IN sort_by_score(h, SelectSeq(dedup, same))

\* the inner loop of aggregate_results: names of the results of the same file
\* group whose name differs, at most 3
RECURSIVE RelatedFrom(_, _, _, _, _)
RelatedFrom(h, group, j, own, related) ==
    IF j > Len(group) THEN related
    ELSE IF h[group[j]].name # own /\ Len(related) < MaxRelated
         THEN RelatedFrom(h, group, j + 1, own, Append(related, h[group[j]].name))
         ELSE RelatedFrom(h, group, j + 1, own, related)

\* a mutant of related_of: the result's own name is not excluded
related_with_self(h, dedup, x) ==
    RelatedFrom(h, file_group(h, dedup, h[x].file_path), 1, "", <<>>)

\* related, as computed for result x
related_of(h, dedup, x) ==
    RelatedFrom(h, file_group(h, dedup, h[x].file_path), 1, h[x].name, <<>>)

\* the result dicts after the "related context" loop of aggregate_results
relate(h, dedup) ==
    [x \in DOMAIN h |->
        IF x \in Range(dedup) /\ related_of(h, dedup, x) # <<>>
        THEN [h[x] EXCEPT !.related_methods = related_of(h, dedup, x)]
        ELSE h[x]]

\* a mutant of the truncation: one entry too many
truncate_off_by_one(refs, n) == Slice(refs, 0, n + 1)

\* a mutant of the truncation: one entry too few
truncate_one_short(refs, n) == Slice(refs, 0, Max(n, 1) - 1)

\* deduplicated[:max_results]
truncate(refs, n) == Slice(refs, 0, n)

\* the list aggregate_results returns
aggregate_results(h, refs, n) ==
    IF refs = <<>> THEN <<>>
    ELSE truncate(sort_by_score(h, deduplicate(h, refs)), n)

\* the result dicts after aggregate_results
aggregate_heap(h, refs) ==
    IF refs = <<>> THEN h ELSE relate(h, deduplicate(h, refs))

\* str(start_line // 50)
bucket_of(r) == r.start_line \div ContextWindow

\* a mutant of the context key: file path and bucket number are joined
\* without the ":" separator
context_key_unseparated(r) == r.file_path \o IntToStr(bucket_of(r))

\* context_key = f"{file_path}:{start_line // 50}"
context_key(r) == r.file_path \o <<":">> \o IntToStr(bucket_of(r))

\* the keys of context_groups in insertion order (a dict keeps the order in
\* which its keys were first inserted)
RECURSIVE KeysFrom(_, _, _, _)
KeysFrom(h, refs, i, seen) ==
    IF i > Len(refs) THEN <<>>
    ELSE IF context_key(h[refs[i]]) \notin seen
         THEN <<context_key(h[refs[i]])>>
              \o KeysFrom(h, refs, i + 1, seen \cup {context_key(h[refs[i]])})
         ELSE KeysFrom(h, refs, i + 1, seen)

context_keys(h, refs) == KeysFrom(h, refs, 1, {})

\* context_groups[key]: the results with that key, in list order
context_group(h, refs, key) ==
    LET inKey(x) == context_key(h[x]) = key IN SelectSeq(refs, inKey)

\* a mutant of the choice of the primary: the last member of the group
primary_last(group) == group[Len(group)]

\* primary = group[0]
primary_of(group) == group[1]

\* the context_items list built for a multi-member group: group[1:4]
context_items_of(h, group) ==
    LET rest == Slice(group, 1, 1 + MaxContextItems) IN
    [j \in DOMAIN rest |->
        [name |-> h[rest[j]].name, type |-> h[rest[j]].type,
         score |-> h[rest[j]].final_score]]

\* the list merge_context returns: one entry per context group
merge_context(h, refs) ==
    LET keys == context_keys(h, refs) IN
    [k \in DOMAIN keys |-> primary_of(context_group(h, refs, keys[k]))]

\* the result dicts after merge_context: the primary of every multi-member
\* group is annotated in place
merge_heap(h, refs) ==
    [x \in DOMAIN h |->
        IF x \in Range(refs)
        THEN LET group == context_group(h, refs, context_key(h[x])) IN
             IF Len(group) > 1 /\ primary_of(group) = x
             THEN [h[x] EXCEPT !.context_size = Len(group),
                               !.context_items = context_items_of(h, group)]
             ELSE h[x]
        ELSE h[x]]

----------------------------------------------------------------------------
(* ConceptScorer *)

\* scores are fixed-point numbers: a float x in [0,1] is the integer
\* x * ScoreScale; 600 is divisible by every union size 1..6 and by 2, so the
\* Jaccard quotient and distance / 2 are exact
ScoreScale == 600

\* the weights of boost_score_with_concepts, in percent
SemanticWeight == 60

ConceptWeight == 25

QualityWeight == 10

RecencyWeight == 5

\* final scores are in 1/FinalScale units (a score times a percent weight)
FinalScale == ScoreScale * 100

\* the values of the CodeConcept enum known to the model; "a", "b", "c" stand
\* for values such as "async_operation"
CodeConceptValues == {<<"a">>, <<"b">>, <<"c">>}

\* position of the first sep in s, 0 if there is none
FirstIndexOf(s, sep) ==
    IF \E i \in DOMAIN s : s[i] = sep
    THEN CHOOSE i \in DOMAIN s : s[i] = sep /\ \A j \in 1..(i - 1) : s[j] # sep
    ELSE 0

\* str.split(sep)
RECURSIVE Split(_, _)
Split(s, sep) ==
    IF FirstIndexOf(s, sep) = 0 THEN <<s>>
    ELSE <<SubSeq(s, 1, FirstIndexOf(s, sep) - 1)>>
         \o Split(SubSeq(s, FirstIndexOf(s, sep) + 1, Len(s)), sep)

\* a mutant of the tag parsing: the pieces are not stripped
parse_unstripped(text) ==
    LET nonEmpty(c) == c # <<>> IN SelectSeq(Split(text, ","), nonEmpty)

\* result_concept_list = [c.strip() for c in result_concepts.split(",") if c.strip()]
result_concept_list(text) ==
    LET pieces == Split(text, ",")
        stripped == [i \in DOMAIN pieces |-> Strip(pieces[i])]
        nonEmpty(c) == c # <<>>
    IN SelectSeq(stripped, nonEmpty)

\* result_concept_enums: CodeConcept(concept_str), a ValueError skips the tag
result_concept_enums(text) ==
    LET known(c) == c \in CodeConceptValues IN SelectSeq(result_concept_list(text), known)

\* ConceptScorer.calculate_concept_score(query_concepts, result_concepts);
\* qc is the list of query concepts (each concept once, so a set stands for it)
calculate_concept_score(qc, text) ==
    IF qc = {} \/ text = <<>> THEN 0
    ELSE IF result_concept_enums(text) = <<>> THEN 0
    ELSE LET query_set == qc
             result_set == Range(result_concept_enums(text))
             intersection == Cardinality(query_set \cap result_set)
             union == Cardinality(query_set \cup result_set)
         IN IF union > 0 THEN (intersection * ScoreScale) \div union ELSE 0

\* ConceptScorer.boost_score_with_concepts with the default weights
boost_score_with_concepts(sem, con, doc) ==
    LET quality_score == IF doc THEN ScoreScale ELSE ScoreScale \div 2
        recency_score == ScoreScale \div 2
        weighted == sem * SemanticWeight + con * ConceptWeight
                    + quality_score * QualityWeight + recency_score * RecencyWeight
    IN Min(weighted, FinalScale)

\* semantic_score = 1 - distance / 2, or 1.0 when the hit has no distance
semantic_of(d) == IF d = NoDistance THEN ScoreScale ELSE ScoreScale - d \div 2

\* longest metadata["concepts"] text
MaxTagsLen == 4

TagChars == {"a", "b", "x", ",", " "}

\* squared-L2 distances a Chroma query reports: 0, 0.5, 1, 2, 3, 4
Distances == {0, 300, 600, 1200, 1800, 2400}

ScoreInit ==
    /\ query_concepts \in SUBSET CodeConceptValues
    /\ result_concepts \in SeqUpTo(TagChars, MaxTagsLen)
    /\ distance = NoDistance
    /\ has_docstring = FALSE
    /\ semantic_score = 0
    /\ concept_score = 0
    /\ final_score = 0
    /\ score_pc = "start"

\* no hit is being scored
ScoreIdle ==
    /\ query_concepts = {}
    /\ result_concepts = <<>>
    /\ distance = NoDistance
    /\ has_docstring = FALSE
    /\ semantic_score = 0
    /\ concept_score = 0
    /\ final_score = 0
    /\ score_pc = "idle"

\* the body of the scoring loop of SemanticSearch.search for one hit
ScoreHit ==
    /\ score_pc = "start"
    /\ \E d \in Distances \cup {NoDistance}, doc \in BOOLEAN :
        /\ distance' = d
        /\ has_docstring' = doc
        /\ semantic_score' = semantic_of(d)
        /\ concept_score' = calculate_concept_score(query_concepts, result_concepts)
        /\ final_score' = boost_score_with_concepts(
                              semantic_of(d),
                              calculate_concept_score(query_concepts, result_concepts),
                              doc)
    /\ score_pc' = "scored"
    /\ UNCHANGED <<query_concepts, result_concepts>>
    /\ UNCHANGED notScore

ScoreNext == ScoreHit

----------------------------------------------------------------------------
(* QueryIntent *)

\* A query is a sequence of words; the \s+ of the patterns is the gap between
\* two neighbouring words.  A pattern is a sequence of elements, each a set of
\* alternative word sequences that may be optional: (all\s+)? is
\* [alts |-> {<<"all">>}, optional |-> TRUE].
Elem(alts, optional) == [alts |-> alts, optional |-> optional]

\* the limit of a "list all" query
ExpandedLimit == 20

\* QueryIntent.INTENTS['list_all_classes']
ListAllClassesPatterns ==
    << <<Elem({<<"list">>, <<"show">>, <<"what", "are">>, <<"find">>}, FALSE),
         Elem({<<"all">>}, TRUE), Elem({<<"the">>}, TRUE), Elem({<<"classes">>}, FALSE)>>,
       <<Elem({<<"responsibility">>}, FALSE), Elem({<<"of">>}, FALSE),
         Elem({<<"each">>}, FALSE), Elem({<<"class">>}, FALSE)>>,
       <<Elem({<<"what">>}, FALSE), Elem({<<"classes">>}, FALSE),
         Elem({<<"are">>, <<"exist">>}, FALSE)>> >>

\* QueryIntent.INTENTS['list_all_functions']
ListAllFunctionsPatterns ==
    << <<Elem({<<"list">>, <<"show">>, <<"what", "are">>}, FALSE),
         Elem({<<"all">>}, TRUE), Elem({<<"the">>}, TRUE), Elem({<<"functions">>}, FALSE)>>,
       <<Elem({<<"list">>, <<"show">>, <<"what", "are">>}, FALSE),
         Elem({<<"all">>}, TRUE), Elem({<<"the">>}, TRUE), Elem({<<"methods">>}, FALSE)>> >>

\* the words of q from position i on begin with the word sequence w
StartsWithAt(q, i, w) ==
    /\ i + Len(w) - 1 <= Len(q)
    /\ \A k \in DOMAIN w : q[i + k - 1] = w[k]

\* the elements k.. of the pattern match q from word i on
RECURSIVE MatchAt(_, _, _, _)
MatchAt(pattern, k, q, i) ==
    IF k > Len(pattern) THEN TRUE
    ELSE \/ \E w \in pattern[k].alts :
               StartsWithAt(q, i, w) /\ MatchAt(pattern, k + 1, q, i + Len(w))
         \/ pattern[k].optional /\ MatchAt(pattern, k + 1, q, i)

\* re.search(pattern, q): a match anywhere in q
re_search(pattern, q) == \E i \in 1..(Len(q) + 1) : MatchAt(pattern, 1, q, i)

\* some pattern of the group matches
any_pattern(patterns, q) == \E n \in DOMAIN patterns : re_search(patterns[n], q)

\* str.lower() of one word
LowerWord(w) ==
    CASE w = "List" -> "list"
      [] w = "CLASSES" -> "classes"
      [] w = "Methods" -> "methods"
      [] OTHER -> w

\* query.lower()
lower(q) == [i \in DOMAIN q |-> LowerWord(q[i])]

IntentOf(type, filter_type, expand_limit) ==
    [type |-> type, filter_type |-> filter_type, expand_limit |-> expand_limit]

\* a mutant of detect_intent: the function patterns are tried first
detect_intent_functions_first(q) ==
    IF any_pattern(ListAllFunctionsPatterns, lower(q))
    THEN IntentOf("list_all_functions", "function", TRUE)
    ELSE IF any_pattern(ListAllClassesPatterns, lower(q))
         THEN IntentOf("list_all_classes", "class", TRUE)
         ELSE IntentOf("general", None, FALSE)

\* QueryIntent.detect_intent(query)
detect_intent(q) ==
    LET query_lower == lower(q) IN
    IF any_pattern(ListAllClassesPatterns, query_lower)
    THEN IntentOf("list_all_classes", "class", TRUE)
    ELSE IF any_pattern(ListAllFunctionsPatterns, query_lower)
         THEN IntentOf("list_all_functions", "function", TRUE)
         ELSE IntentOf("general", None, FALSE)

\* a dict is a set of <<key, value>> pairs
\* QueryIntent.adjust_search_params(query, default_limit)
adjust_search_params(q, dl) ==
    LET i == detect_intent(q) IN
    [limit |-> IF i.expand_limit THEN ExpandedLimit ELSE dl,
     filter_dict |-> IF i.filter_type # None
                     THEN Some({<<"type", i.filter_type>>}) ELSE Nothing]

\* longest query, in words
MaxQueryLen == 4

Words == {"list", "find", "what", "are", "all", "the", "classes", "functions",
          "methods", "List"}

\* settings.default_search_limit, the default of adjust_search_params, and a
\* caller limit above the expanded limit
DefaultLimits == {5, 10, 30}

NoIntent == IntentOf("general", None, FALSE)

NoParams == [limit |-> 0, filter_dict |-> Nothing]

IntentInit ==
    /\ query \in SeqUpTo(Words, MaxQueryLen)
    /\ default_limit = 5
    /\ intent = NoIntent
    /\ params = NoParams
    /\ intent_pc = "start"

\* no query is being classified
IntentIdle ==
    /\ query = <<>>
    /\ default_limit = 5
    /\ intent = NoIntent
    /\ params = NoParams
    /\ intent_pc = "idle"

\* QueryIntent.detect_intent(query)
DetectIntent ==
    /\ intent_pc = "start"
    /\ intent' = detect_intent(query)
    /\ intent_pc' = "detected"
    /\ UNCHANGED <<query, default_limit, params>>
    /\ UNCHANGED notIntent

\* QueryIntent.adjust_search_params(query, default_limit)
AdjustSearchParams ==
    /\ intent_pc = "start"
    /\ \E dl \in DefaultLimits :
        /\ default_limit' = dl
        /\ params' = adjust_search_params(query, dl)
    /\ intent' = detect_intent(query)
    /\ intent_pc' = "adjusted"
    /\ UNCHANGED query
    /\ UNCHANGED notIntent

IntentNext == DetectIntent \/ AdjustSearchParams

----------------------------------------------------------------------------
(* ResultAggregator: inputs and operations *)

\* longest input list of the key family (deduplication keys vary)
MaxKeyLen == 4

\* longest input list of the group family (one file, many results)
MaxGroupLen == 5

\* longest input list of the context family (files and line windows vary)
MaxContextLen == 4

\* default of the max_results parameter
DefaultMaxResults == 10

Names == {"f", "g"}

FilePaths == {<<"a">>, <<"a", "1">>}

StartLines == {10, 40, 55, 500}

Scores == {1, 2}

\* position-dependent documents of the group family: no two results of such
\* a list share a document
DocChar(i) == <<"d">> \o IntToStr(i)

\* a search result as vector_store.search formats it and search() scores it;
\* related_methods / context_items empty and context_size 0 stand for an
\* absent key (the code never stores an empty list or a size below 2)
Result(n, t, d, f, l, s) ==
    [name |-> n, type |-> t, document |-> d, file_path |-> f, start_line |-> l,
     final_score |-> s, related_methods |-> <<>>, context_size |-> 0,
     context_items |-> <<>>]

\* results of one file that differ pairwise in one component of the
\* deduplication key: document whitespace (1-2, 5-6), document text (1-3), type
\* (1-4), name (1-5); the whitespace variants also differ in final_score
KeyPool ==
    {Result("f", "function", <<"a">>, <<"a">>, 10, 1),
     Result("f", "function", <<" ", "a">>, <<"a">>, 10, 2),
     Result("f", "function", <<"b">>, <<"a">>, 10, 1),
     Result("f", "class", <<"a">>, <<"a">>, 10, 1),
     Result("g", "function", <<"a">>, <<"a">>, 10, 2),
     Result("g", "function", <<"a", " ">>, <<"a">>, 10, 1)}

KeyInputs == SeqUpTo(KeyPool, MaxKeyLen)

GroupShapes == SeqUpTo(Names \X Scores, MaxGroupLen)

GroupInputs ==
    {[i \in DOMAIN g |-> Result(g[i][1], "function", DocChar(i), <<"a">>, 10, g[i][2])]
        : g \in GroupShapes}

ContextPool == {Result("f", "function", <<"a">>, f, l, 1) :
                   f \in FilePaths, l \in StartLines}

ContextInputs == SeqUpTo(ContextPool, MaxContextLen)

MaxResultsChoices == {0, 1, 2, DefaultMaxResults}

AllRefs(h) == [i \in DOMAIN h |-> i]

AggInit ==
    /\ results0 \in KeyInputs \cup GroupInputs \cup ContextInputs
    /\ results = results0
    /\ max_results = DefaultMaxResults
    /\ returned = <<>>
    /\ merge_arg = <<>>
    /\ pre_merge = <<>>
    /\ agg_pc = "start"

\* no aggregation is in progress
AggIdle ==
    /\ results0 = <<>>
    /\ results = <<>>
    /\ max_results = DefaultMaxResults
    /\ returned = <<>>
    /\ merge_arg = <<>>
    /\ pre_merge = <<>>
    /\ agg_pc = "idle"

\* deduplicated = ResultAggregator._deduplicate(results)
Deduplicate ==
    /\ agg_pc = "start"
    /\ returned' = deduplicate(results, AllRefs(results))
    /\ agg_pc' = "deduplicated"
    /\ UNCHANGED <<results0, results, max_results, merge_arg, pre_merge>>
    /\ UNCHANGED notAgg

\* ResultAggregator.aggregate_results(results, max_results)
AggregateResults ==
    /\ agg_pc = "start"
    /\ \E n \in MaxResultsChoices :
        /\ max_results' = n
        /\ returned' = aggregate_results(results, AllRefs(results), n)
    /\ results' = aggregate_heap(results, AllRefs(results))
    /\ agg_pc' = "aggregated"
    /\ UNCHANGED <<results0, merge_arg, pre_merge>>
    /\ UNCHANGED notAgg

\* ResultAggregator.merge_context(results) on a list as given by a caller
MergeContext ==
    /\ agg_pc = "start"
    /\ merge_arg' = AllRefs(results)
    /\ pre_merge' = results
    /\ returned' = merge_context(results, AllRefs(results))
    /\ results' = merge_heap(results, AllRefs(results))
    /\ agg_pc' = "merged"
    /\ UNCHANGED <<results0, max_results>>
    /\ UNCHANGED notAgg

\* ResultAggregator.merge_context(aggregated_results), as search() calls it
MergeAggregated ==
    /\ agg_pc = "aggregated"
    /\ merge_arg' = returned
    /\ pre_merge' = results
    /\ returned' = merge_context(results, returned)
    /\ results' = merge_heap(results, returned)
    /\ agg_pc' = "aggregated_merged"
    /\ UNCHANGED <<results0, max_results>>
    /\ UNCHANGED notAgg

AggNext == Deduplicate \/ AggregateResults \/ MergeContext \/ MergeAggregated

----------------------------------------------------------------------------
(* SemanticSearch *)

\* limit = None
NoLimit == -1

\* settings.default_search_limit
DefaultSearchLimit == 10

\* QueryAnalyzer.detect_concepts on the words of the model: "list" is a
\* keyword of array_operation, written <<"a">> here
detect_concepts(q) ==
    IF \E i \in DOMAIN q : lower(q)[i] = "list" THEN {<<"a">>} ELSE {}

\* dict.update: the entries of e replace the entries of d with the same key
update(d, e) == {p \in d : ~(\E r \in e : r[1] = p[1])} \cup e

\* a mutant of build_filter: the caller's entries replace the intent's
build_filter_caller_first(ff, tf, search_params) ==
    LET from_file == IF ff # Nothing /\ ff[1] # <<>> THEN {<<"file_path", ff[1]>>} ELSE {}
        from_type == IF tf # None THEN {<<"type", tf>>} ELSE {}
        filter_dict == from_file \cup from_type
    IN IF search_params.filter_dict # Nothing
       THEN update(search_params.filter_dict[1], filter_dict)
       ELSE filter_dict

\* the filter search() builds from its arguments and the query intent ("if
\* file_filter" is false for None and for the empty string)
build_filter(ff, tf, search_params) ==
    LET from_file == IF ff # Nothing /\ ff[1] # <<>> THEN {<<"file_path", ff[1]>>} ELSE {}
        from_type == IF tf # None THEN {<<"type", tf>>} ELSE {}
        filter_dict == from_file \cup from_type
    IN IF search_params.filter_dict # Nothing
       THEN update(filter_dict, search_params.filter_dict[1])
       ELSE filter_dict

\* filter_dict if filter_dict else None
where_arg(filter_dict) == IF filter_dict # {} THEN Some(filter_dict) ELSE Nothing

\* a stored unit satisfies the where clause (no clause when the dict is empty)
matches_where(u, where) ==
    \A p \in where :
        /\ p[1] = "type" => u.type = p[2]
        /\ p[1] = "file_path" => u.file_path = p[2]

\* collection.query(n_results, where): the n nearest units that satisfy the
\* where clause, nearest first, as references into the store
vector_store_search(stored, n, where) ==
    LET M == {i \in DOMAIN stored : matches_where(stored[i], where)}
        rank(i) == 1 + Cardinality({j \in M :
                        \/ stored[j].distance < stored[i].distance
                        \/ stored[j].distance = stored[i].distance /\ j < i})
    IN [p \in 1..Min(n, Cardinality(M)) |-> CHOOSE i \in M : rank(i) = p]

\* the scoring loop: one result dict per hit, with its final_score
score_hits(stored, hits, qc) ==
    [k \in DOMAIN hits |->
        LET u == stored[hits[k]] IN
        [name |-> u.name, type |-> u.type, document |-> u.document,
         file_path |-> u.file_path, start_line |-> u.start_line,
         final_score |-> boost_score_with_concepts(
                             semantic_of(u.distance),
                             calculate_concept_score(qc, u.concepts),
                             u.docstring),
         related_methods |-> <<>>, context_size |-> 0, context_items |-> <<>>]]

\* SemanticSearch.search for a non-empty query: the number of hits, the
\* filter_dict argument of vector_store.search and the list returned
search(q, lim, ff, tf, stored) ==
    LET limit_used == IF lim = NoLimit THEN DefaultSearchLimit ELSE lim
        search_params == adjust_search_params(q, limit_used)
        adjusted_limit == search_params.limit
        filter_dict == build_filter(ff, tf, search_params)
        hits == vector_store_search(stored, adjusted_limit, filter_dict)
        scored == score_hits(stored, hits, detect_concepts(q))
        sorted == sort_by_score(scored, AllRefs(scored))
        aggregated_results == aggregate_results(scored, sorted, limit_used)
        aggregated == aggregate_heap(scored, sorted)
        merged_refs == merge_context(aggregated, aggregated_results)
        merged == merge_heap(aggregated, aggregated_results)
    IN [retrieved |-> Len(hits),
        where |-> where_arg(filter_dict),
        final_results |-> [k \in DOMAIN merged_refs |-> merged[merged_refs[k]]]]

\* size of a store that holds more units of a type than the expanded limit
ManyUnits == 22

FewUnits == 3

UnitCounts == {0, FewUnits, ManyUnits}

\* spread: every unit in a file of its own; dense: all units in one file, ten
\* lines apart; duplicated: spread, with one name and one text per type
Layouts == {"spread", "dense", "duplicated"}

\* the i-th unit of a store of the given layout; the distance grows with i
\* when the classes are near the query and shrinks with i otherwise
StoredUnit(i, n, type, layout, near) ==
    [name |-> IF layout = "duplicated" \/ i % 2 = 0 THEN "f" ELSE "g",
     type |-> type,
     document |-> IF layout = "duplicated" THEN <<"d">> ELSE DocChar(i),
     file_path |-> IF layout = "dense" THEN <<"a">> ELSE IntToStr(i),
     start_line |-> 10 * i,
     concepts |-> IF i % 3 = 0 THEN <<"a">> ELSE <<>>,
     docstring |-> i % 2 = 0,
     distance |-> IF near = "class" THEN 30 * i ELSE 30 * (n + 1 - i)]

\* a store of nc classes followed by nf functions
StoreOf(nc, nf, layout, near) ==
    [i \in 1..(nc + nf) |->
        StoredUnit(i, nc + nf, IF i <= nc THEN "class" ELSE "function", layout, near)]

Stores == {StoreOf(nc, nf, layout, near) :
              nc \in UnitCounts, nf \in UnitCounts, layout \in Layouts,
              near \in {"class", "function"}}

Queries == {<<>>, <<" ">>, <<"list", "all", "classes">>, <<"List", "the", "methods">>,
            <<"find", "functions">>, <<"what", "classes", "are", "list">>}

Limits == {NoLimit, 1, 5, 20, 30}

SearchInit ==
    /\ search_query \in Queries
    /\ limit \in Limits
    /\ file_filter \in {Nothing, Some(<<>>), Some(<<"1">>)}
    /\ type_filter \in {None, "class", "function"}
    /\ store \in Stores
    /\ retrieved = 0
    /\ final_results = <<>>
    /\ search_calls = <<>>
    /\ store_where = <<>>
    /\ search_pc = "start"

\* no search is running
SearchIdle ==
    /\ search_query = <<>>
    /\ limit = NoLimit
    /\ file_filter = Nothing
    /\ type_filter = None
    /\ store = <<>>
    /\ retrieved = 0
    /\ final_results = <<>>
    /\ search_calls = <<>>
    /\ store_where = <<>>
    /\ search_pc = "idle"

\* SemanticSearch.search(query, limit, file_filter, type_filter): "not
\* query" holds for the empty string only
Search ==
    /\ search_pc = "start"
    /\ IF search_query = <<>>
       THEN /\ search_pc' = "raised"
            /\ UNCHANGED <<retrieved, final_results, search_calls, store_where>>
       ELSE /\ search_calls' = <<"generate_query_embedding", "vector_store.search">>
            /\ \E r \in {search(search_query, limit, file_filter, type_filter, store)} :
                /\ retrieved' = r.retrieved
                /\ store_where' = <<r.where>>
                /\ final_results' = r.final_results
            /\ search_pc' = "done"
    /\ UNCHANGED <<search_query, limit, file_filter, type_filter, store>>
    /\ UNCHANGED notSearch

SearchNext == Search

----------------------------------------------------------------------------
(* Parsers: PythonParser, StatementExtractor, JavaParser, GoParser,
   JavaScriptParser *)

\* A source is a sequence of characters.  The text of a declaration header up
\* to its parameter list is one character:
\*   java        "C" class A          "M" void m(a)        "K" else if (x)
\*               "D" public class A   "P" public void m(a)
\*   go          "F" func f(a)        "T" type A struct
\*   javascript  "F" function f(a)    "A" const f = (a) =>
\*               "Y" const f = async (a) =>   "C" class A
\*               "M" m(a)             "K" if (x)
\* "x" is any other text.  A pattern is the set of headers it accepts, the
\* characters it requires after the header and optional white space (none
\* when it ends with the header), and the headers before which it takes in
\* white space: a pattern that begins with an optional modifier and \s* takes
\* in the white space before a header without modifier.
Pattern(heads, opens, lead_ws) == [heads |-> heads, opens |-> opens, lead_ws |-> lead_ws]

\* one finditer loop of an extractor: the pattern, the type of its units, the
\* headers whose name is skipped, and whether a class must start before it
Pass(pattern, type, skip, in_class) ==
    [pattern |-> pattern, type |-> type, skip |-> skip, in_class |-> in_class]

\* JavaParser._extract_classes, _extract_methods
JavaPasses ==
    <<Pass(Pattern({"C", "D"}, {"{"}, {"C"}), "class", {}, FALSE),
      Pass(Pattern({"M", "P", "K"}, {"{"}, {"M", "K"}), "method", {"K"}, FALSE)>>

\* GoParser._extract_functions, _extract_structs
GoPasses ==
    <<Pass(Pattern({"F"}, {"{"}, {}), "function", {}, FALSE),
      Pass(Pattern({"T"}, {"{"}, {}), "class", {}, FALSE)>>

\* JavaScriptParser._extract_functions (func_pattern, arrow_pattern,
\* arrow_async_pattern), _extract_classes, _extract_methods
JavaScriptPasses ==
    <<Pass(Pattern({"F"}, {"{"}, {}), "function", {}, FALSE),
      Pass(Pattern({"A", "Y"}, {"{", "("}, {}), "function", {}, FALSE),
      Pass(Pattern({"Y"}, {}, {}), "function", {}, FALSE),
      Pass(Pattern({"C"}, {"{"}, {}), "class", {}, FALSE),
      Pass(Pattern({"M", "K", "F"}, {"{"}, {}), "method", {"K"}, TRUE)>>

PassesOf(lang) ==
    CASE lang = "java" -> JavaPasses
      [] lang = "go" -> GoPasses
      [] lang = "javascript" -> JavaScriptPasses
      [] OTHER -> <<>>

\* "\n".join(lines)
RECURSIVE Join(_, _)
Join(lines, sep) ==
    IF lines = <<>> THEN <<>>
    ELSE IF Len(lines) = 1 THEN lines[1]
    ELSE lines[1] \o <<sep>> \o Join(Tail(lines), sep)

\* the first position from p on that holds no white space
SkipSpace(s, p) ==
    LET rest == {q \in p..Len(s) : ~IsSpace(s[q])} IN
    IF rest = {} THEN Len(s) + 1 ELSE CHOOSE q \in rest : \A r \in rest : q <= r

\* re.match at position p: the position of the header and of the last
\* character of the match, 0 when the pattern does not match there
match_at(s, p, pattern) ==
    LET q == IF pattern.lead_ws # {} THEN SkipSpace(s, p) ELSE p
        r == SkipSpace(s, q + 1)
    IN IF q <= Len(s) /\ s[q] \in pattern.heads /\ (q = p \/ s[q] \in pattern.lead_ws)
       THEN IF pattern.opens = {} THEN [head |-> q, end |-> q]
            ELSE IF r <= Len(s) /\ s[r] \in pattern.opens
                 THEN [head |-> q, end |-> r]
                 ELSE [head |-> 0, end |-> 0]
       ELSE [head |-> 0, end |-> 0]

\* re.finditer(pattern, content): the matches from left to right, each
\* starting after the end of the one before; start_pos is match.start(),
\* open_pos the position of the last character of the match
RECURSIVE finditer(_, _, _)
finditer(s, pattern, p) ==
    IF p > Len(s) THEN <<>>
    ELSE IF match_at(s, p, pattern).end > 0
         THEN <<[start_pos |-> p, head |-> s[match_at(s, p, pattern).head],
                 open_pos |-> match_at(s, p, pattern).end]>>
              \o finditer(s, pattern, match_at(s, p, pattern).end + 1)
         ELSE finditer(s, pattern, p + 1)

\* start_line = content[:start_pos].count('\n') + 1
line_of(s, start_pos) ==
    Cardinality({i \in 1..(start_pos - 1) : s[i] = "\n"}) + 1

\* the value of a brace scan that raised IndexError
IndexError == -1

\* GoParser / JavaScriptParser._find_closing_brace, from character k of line
\* li (1-based) on: the line of the "}" that brings the count back to 0, or
\* len(lines)
RECURSIVE ScanBraces(_, _, _, _, _)
ScanBraces(lines, li, k, brace_count, in_block) ==
    IF li > Len(lines) THEN Len(lines)
    ELSE IF k > Len(lines[li]) THEN ScanBraces(lines, li + 1, 1, brace_count, in_block)
    ELSE IF lines[li][k] = "{" THEN ScanBraces(lines, li, k + 1, brace_count + 1, TRUE)
    ELSE IF lines[li][k] = "}"
         THEN IF in_block /\ brace_count - 1 = 0 THEN li
              ELSE ScanBraces(lines, li, k + 1, brace_count - 1, in_block)
    ELSE ScanBraces(lines, li, k + 1, brace_count, in_block)

find_closing_brace(lines, start_line) == ScanBraces(lines, start_line, 1, 0, FALSE)

\* JavaParser._find_closing_brace: a quote toggles in_string unless
\* line[i-1] is a backslash, i being the 0-based number of the line; braces
\* count only outside strings; line[i-1] past the end of the line raises
RECURSIVE ScanJava(_, _, _, _, _, _)
ScanJava(lines, li, k, brace_count, in_block, in_string) ==
    IF li > Len(lines) THEN Len(lines)
    ELSE IF k > Len(lines[li])
         THEN ScanJava(lines, li + 1, 1, brace_count, in_block, FALSE)
    ELSE IF lines[li][k] = "\"" /\ li - 1 # 0 /\ li - 1 > Len(lines[li])
         THEN IndexError
    ELSE LET toggles == lines[li][k] = "\""
                        /\ (li - 1 = 0 \/ lines[li][li - 1] # "\\")
             now_in_string == IF toggles THEN ~in_string ELSE in_string
         IN IF ~now_in_string /\ lines[li][k] = "{"
            THEN ScanJava(lines, li, k + 1, brace_count + 1, TRUE, now_in_string)
            ELSE IF ~now_in_string /\ lines[li][k] = "}"
                 THEN IF in_block /\ brace_count - 1 = 0 THEN li
                      ELSE ScanJava(lines, li, k + 1, brace_count - 1, in_block,
                                    now_in_string)
            ELSE ScanJava(lines, li, k + 1, brace_count, in_block, now_in_string)

find_closing_brace_java(lines, start_line) ==
    ScanJava(lines, start_line, 1, 0, FALSE, FALSE)

\* a mutant of the slice: lines[start_line:end_line]
content_of_off_by_one(lines, start_line, end_line) ==
    Join(Slice(lines, start_line, end_line), "\n")

\* '\n'.join(lines[start_line - 1:end_line])
content_of(lines, start_line, end_line) ==
    Join(Slice(lines, start_line - 1, end_line), "\n")

\* a unit; its name is the header (or the kind of ast node) it was made from,
\* its metadata the keys parse_file adds after extraction (the keys the
\* extractor itself sets are left out)
CodeUnit(type, name, lines, start_line, end_line) ==
    [type |-> type, name |-> name, start_line |-> start_line, end_line |-> end_line,
     content |-> content_of(lines, start_line, end_line), metadata |-> <<>>]

\* file_imports[:10]
MaxImports == 10

\* the cap of calculate_complexity
MaxComplexity == 50

\* ConceptDetector.detect_concepts(unit.content, language): of the texts the
\* headers stand for only "const f = async (a) =>" holds a pattern, the
\* JavaScript pattern 'async (' of async_operation
detect_code_concepts(content, lang) ==
    IF lang = "javascript" /\ "Y" \in Range(content) THEN {"async_operation"} ELSE {}

\* MetadataExtractor.calculate_complexity: 1 plus the decision keywords in
\* the content, at most 50; "K" is the header that holds one ("if")
calculate_complexity(content) ==
    Min(1 + Cardinality({i \in DOMAIN content : content[i] = "K"}), MaxComplexity)

\* MetadataExtractor.has_docstring: "d" is a documentation comment
has_docstring_text(content) == "d" \in Range(content)

\* len(MetadataExtractor.extract_parameters(unit.signature or '', language)):
\* the signature of a function or method is its header with one parameter,
\* that of a class or statement has no parameter list
param_count(unit) == IF unit.type \in {"function", "method"} THEN 1 ELSE 0

\* the keys the loop over code_units of parse_file sets: PythonParser and
\* JavaScriptParser add the rich metadata, JavaParser and GoParser only the
\* concepts, and those only when some concept was detected
metadata_keys(lang, unit) ==
    (IF detect_code_concepts(unit.content, lang) # {} THEN {"concepts"} ELSE {})
    \cup (IF lang \in {"python", "javascript"}
          THEN {"imports", "complexity", "has_docs", "param_count"} ELSE {})

\* the loop over code_units at the end of parse_file
post_process(lang, code_units, imports) ==
    [n \in DOMAIN code_units |->
        [code_units[n] EXCEPT !.metadata =
            [k \in metadata_keys(lang, code_units[n]) |->
                CASE k = "concepts" -> detect_code_concepts(code_units[n].content, lang)
                  [] k = "imports" -> Slice(imports, 0, MaxImports)
                  [] k = "complexity" -> calculate_complexity(code_units[n].content)
                  [] k = "has_docs" -> has_docstring_text(code_units[n].content)
                  [] k = "param_count" -> param_count(code_units[n])]]]

\* the positions where r'class\s+\w+' matches (JavaScriptParser._extract_methods)
class_regions(s) == {p \in DOMAIN s : s[p] = "C"}

\* the matches of one finditer loop that reach the append: the name is not
\* one to skip, and a class starts before a method
matches_of_pass(s, pass) ==
    LET kept(m) == /\ m.head \notin pass.skip
                   /\ pass.in_class => \E c \in class_regions(s) : m.start_pos > c
    IN SelectSeq(finditer(s, pass.pattern, 1), kept)

\* the units one finditer loop appends
units_of_pass(lang, s, lines, pass) ==
    LET matches == matches_of_pass(s, pass)
    IN [n \in DOMAIN matches |->
           CodeUnit(pass.type, matches[n].head, lines,
                    line_of(s, matches[n].start_pos),
                    IF lang = "java"
                    THEN find_closing_brace_java(lines, line_of(s, matches[n].start_pos))
                    ELSE find_closing_brace(lines, line_of(s, matches[n].start_pos)))]

RECURSIVE UnitsFromPass(_, _, _, _)
UnitsFromPass(lang, s, lines, n) ==
    IF n > Len(PassesOf(lang)) THEN <<>>
    ELSE units_of_pass(lang, s, lines, PassesOf(lang)[n])
         \o UnitsFromPass(lang, s, lines, n + 1)

\* the matches behind the units of all loops, in the order of the units
RECURSIVE MatchesFromPass(_, _, _)
MatchesFromPass(lang, s, n) ==
    IF n > Len(PassesOf(lang)) THEN <<>>
    ELSE matches_of_pass(s, PassesOf(lang)[n]) \o MatchesFromPass(lang, s, n + 1)

\* whether a brace scan of parse_file raises
scan_raises(lang, s) ==
    \E n \in DOMAIN UnitsFromPass(lang, s, Split(s, "\n"), 1) :
        UnitsFromPass(lang, s, Split(s, "\n"), 1)[n].end_line = IndexError

\* JavaParser / GoParser / JavaScriptParser.parse_file: the units of all
\* loops after the loop over code_units, or no unit when a brace scan raised
parse_braces(lang, s, imports) ==
    IF scan_raises(lang, s) THEN <<>>
    ELSE post_process(lang, UnitsFromPass(lang, s, Split(s, "\n"), 1), imports)

\* settings.max_statements_per_function
MaxStatementsPerFunction == 20

\* node.end_lineno is None
NoEnd == 0

\* an ast node with its lineno and end_lineno
Node(kind, lineno, end_lineno) == [kind |-> kind, lineno |-> lineno, end_lineno |-> end_lineno]

\* PythonParser._extract_function / _extract_class
extract_definition(node, lines) ==
    CodeUnit(IF node.kind = "ClassDef" THEN "class" ELSE "function", node.kind, lines,
             node.lineno,
             IF node.end_lineno # NoEnd THEN node.end_lineno ELSE node.lineno)

\* StatementExtractor._analyze_node: the line range of a statement node
analyze_node(node) ==
    IF node.kind \in {"For", "While"}
    THEN <<node.lineno, IF node.end_lineno # NoEnd THEN node.end_lineno ELSE node.lineno>>
    ELSE <<node.lineno, node.lineno>>

\* StatementExtractor.extract_python_statements
extract_python_statements(nodes, lines) ==
    [n \in DOMAIN nodes |->
        CodeUnit("statement", nodes[n].kind, lines,
                 analyze_node(nodes[n])[1], analyze_node(nodes[n])[2])]

\* PythonParser.parse_file on the nodes ast.walk yields: the definitions,
\* then the first max_statements_per_function statements
parse_python(s, definitions, statements, imports) ==
    LET lines == Split(s, "\n") IN
    post_process("python",
        [n \in DOMAIN definitions |-> extract_definition(definitions[n], lines)]
        \o Slice(extract_python_statements(statements, lines), 0, MaxStatementsPerFunction),
        imports)

\* most lines of a source
MaxLines == 3

\* the lines the sources are made of
LinePool(lang) ==
    CASE lang = "python" -> {<<>>, <<"x">>, <<"d">>}
      [] lang = "java" ->
            {<<>>, <<"C", "{">>, <<"M", " ", "{">>, <<"K", "{", "}">>, <<"}">>, <<"{">>,
             <<"M">>, <<"\"">>, <<"x", "\"", "}", "\"">>, <<"\\", "\"", "}", "\"">>,
             <<"D", "{">>, <<"M", "{", "x", "{", "}", "}">>,
             <<"P", "{", "x", "{", "}", "}">>}
      [] lang = "go" ->
            {<<>>, <<"F", "{">>, <<"T", " ", "{">>, <<"}">>, <<"F">>, <<"{", "}">>,
             <<"F", "{", "}", "F", "{">>}
      [] OTHER ->
            {<<>>, <<"F", "{">>, <<"A", " ", "(">>, <<"Y", "{">>, <<"C", "{">>,
             <<"M", "{", "}">>, <<"K", "{">>, <<"}">>, <<"C">>, <<"{">>,
             <<"C", "{", "M", "{">>, <<"K", "{", "}">>, <<"d">>}

Languages == {"python", "java", "go", "javascript"}

\* most lines of a Java source with string literals
MaxLiteralLines == 5

\* the lines of the Java sources with string literals: a method header, the
\* literals "}" and "\n}" and a closing brace
LiteralPool ==
    {<<"M", " ", "{">>, <<"\"", "}", "\"">>, <<"\"", "\\", "n", "}", "\"">>, <<"}">>}

SourcesOf(lang) ==
    {Join(ls, "\n") : ls \in SeqUpTo(LinePool(lang), MaxLines)}
    \cup IF lang = "java"
         THEN {Join(ls, "\n") : ls \in SeqUpTo(LiteralPool, MaxLiteralLines)}
         ELSE {}

\* len(source.split("\n"))
NumLines(s) == Len(Split(s, "\n"))

\* the line ranges ast gives a node of a source: 1 <= lineno <= end_lineno
\* <= number of lines, or no end_lineno
NodesOf(kinds, s) ==
    {n \in [kind : kinds, lineno : 1..NumLines(s), end_lineno : 0..NumLines(s)] :
        n.end_lineno = NoEnd \/ n.lineno <= n.end_lineno}

\* how many statement nodes of one shape a source has
StatementCounts == {0, 1, MaxStatementsPerFunction + 1}

\* the ast.Call nodes _analyze_node keeps, by the text ast.unparse gives
\* them (the name of the unit is "call: " and that text)
CallTexts == {"call: print(1)", "call: log(x)"}

\* the statement nodes of a source: a number of loop or conditional nodes of
\* one shape, or one or two calls, on one line ("print(1); print(1)") or two
StatementLists(s) ==
    {[n \in 1..count |-> statement] :
        statement \in NodesOf({"For", "If"}, s), count \in StatementCounts}
    \cup {<<Node(c, 1, 1)>> : c \in CallTexts}
    \cup {<<Node(c, 1, 1), Node(d, l, l)>> :
            c \in CallTexts, d \in CallTexts, l \in 1..Min(2, NumLines(s))}

\* how many modules a file imports
ImportCounts == {0, MaxImports + 1}

ParseInit ==
    /\ language \in Languages
    /\ readable \in BOOLEAN
    /\ source \in IF readable THEN SourcesOf(language) ELSE {<<>>}
    /\ file_imports \in IF readable /\ language \in {"python", "javascript"}
                        THEN {[i \in 1..n |-> i] : n \in ImportCounts}
                        ELSE {<<>>}
    /\ units = <<>>
    /\ parse_error = None
    /\ parse_pc = "start"

\* no file is being parsed
ParseIdle ==
    /\ language = "python"
    /\ readable = TRUE
    /\ source = <<>>
    /\ file_imports = <<>>
    /\ units = <<>>
    /\ parse_error = None
    /\ parse_pc = "idle"

\* PythonParser.parse_file: ast.parse yields at most one definition node and
\* the statement nodes of one of the lists
ParsePython ==
    /\ parse_pc = "start"
    /\ readable
    /\ language = "python"
    /\ \E definitions \in {<<>>} \cup {<<d>> : d \in NodesOf({"FunctionDef", "ClassDef"}, source)},
          statements \in StatementLists(source) :
          units' = parse_python(source, definitions, statements, file_imports)
    /\ parse_error' = None
    /\ parse_pc' = "parsed"
    /\ UNCHANGED <<language, readable, source, file_imports>>
    /\ UNCHANGED notParse

\* PythonParser.parse_file on a file that is not Python: ast.parse raises
\* SyntaxError, the except clause logs it and returns []
ParsePythonMalformed ==
    /\ parse_pc = "start"
    /\ readable
    /\ language = "python"
    /\ "x" \in Range(source)
    /\ units' = <<>>
    /\ parse_error' = "SyntaxError"
    /\ parse_pc' = "parsed"
    /\ UNCHANGED <<language, readable, source, file_imports>>
    /\ UNCHANGED notParse

\* parse_file of any extractor on a file that cannot be opened or decoded:
\* open or read raises, the except clause logs it and returns []
ParseUnreadable ==
    /\ parse_pc = "start"
    /\ ~readable
    /\ units' = <<>>
    /\ parse_error' = "OSError"
    /\ parse_pc' = "parsed"
    /\ UNCHANGED <<language, readable, source, file_imports>>
    /\ UNCHANGED notParse

\* JavaParser / GoParser / JavaScriptParser.parse_file
ParseBraces ==
    /\ parse_pc = "start"
    /\ readable
    /\ language # "python"
    /\ units' = parse_braces(language, source, file_imports)
    /\ parse_error' = IF scan_raises(language, source) THEN "IndexError" ELSE None
    /\ parse_pc' = "parsed"
    /\ UNCHANGED <<language, readable, source, file_imports>>
    /\ UNCHANGED notParse

ParseNext == ParsePython \/ ParsePythonMalformed \/ ParseUnreadable \/ ParseBraces

----------------------------------------------------------------------------
(* CodeIndexer, and VectorStore.add_code_units *)

\* a path: the names of its directories and its stem, and its suffix
Path(parts, suffix) == [parts |-> parts, suffix |-> suffix]

\* the files the directory can hold, in the order rglob lists them
Tree ==
    <<Path(<<"src", "a">>, ".py"), Path(<<"venv", "lib">>, ".py"),
      Path(<<"src", "b">>, ".go"), Path(<<"docs", "notes">>, ".md")>>

Paths == Range(Tree)

\* the keys of extension_map, in the order __init__ inserts them
Extensions == <<".py", ".pyw", ".js", ".jsx", ".ts", ".tsx", ".mjs", ".java", ".go">>

\* self.extension_map.get(file_ext) finds a parser
has_parser(suffix) == \E i \in DOMAIN Extensions : Extensions[i] = suffix

\* the names index_directory looks for in a listed path; a path holds one
\* when one of its parts is one
SkipNames == {"__pycache__", "venv", "node_modules", ".git"}

\* any(skip in path_str for skip in [...])
skipped(p) == \E i \in DOMAIN p.parts : p.parts[i] \in SkipNames

\* a unit as an extractor builds it, and the unit with its file_path
FileUnit(name, start_line, end_line, content) ==
    [type |-> "function", name |-> name, start_line |-> start_line,
     end_line |-> end_line, content |-> content]

\* what parse_file can return for a file: nothing, a function f, f with
\* another body on the same lines, f grown by a line and a function g, the
\* same unit twice (two patterns that match the same header)
Extractions ==
    {<<>>,
     <<FileUnit("f", 1, 3, "v1")>>,
     <<FileUnit("f", 1, 3, "v2")>>,
     <<FileUnit("f", 1, 4, "v2"), FileUnit("g", 5, 6, "v1")>>,
     <<FileUnit("f", 1, 3, "v1"), FileUnit("f", 1, 3, "v1")>>}

\* the states of a file: it does not exist, its extraction fails, or it
\* yields units
Missing == [exists |-> FALSE, fails |-> FALSE, units |-> <<>>]

Failing == [exists |-> TRUE, fails |-> TRUE, units |-> <<>>]

File(file_units) == [exists |-> TRUE, fails |-> FALSE, units |-> file_units]

FileStatesOf(p) ==
    IF ~has_parser(p.suffix) THEN {Missing, File(<<>>)}
    ELSE IF skipped(p) THEN {Missing, File(<<FileUnit("f", 1, 3, "v1")>>)}
    ELSE {Missing, Failing} \cup {File(x) : x \in Extractions}

\* parser.parse_file(path): the units of the file with their file_path, no
\* unit when the extraction fails
parse_file(files, p) ==
    IF files[p].fails THEN <<>>
    ELSE [n \in DOMAIN files[p].units |->
             [file_path |-> p, type |-> files[p].units[n].type,
              name |-> files[p].units[n].name,
              start_line |-> files[p].units[n].start_line,
              end_line |-> files[p].units[n].end_line,
              content |-> files[p].units[n].content]]

\* f"{cu.file_path}:{cu.type}:{cu.name}:{cu.start_line}-{cu.end_line}"
unit_id(cu) == <<cu.file_path, cu.type, cu.name, cu.start_line, cu.end_line>>

\* VectorStore.add_code_units, given one embedding per unit: collection.add
\* raises when an id occurs twice in the call; for an id the collection
\* already holds it raises or leaves the stored record as it is, depending
\* on the ChromaDB release; otherwise the records are added
add_code_units(coll, mode, code_units) ==
    LET ids == [n \in DOMAIN code_units |-> unit_id(code_units[n])]
        held == {r.id : r \in coll}
    IN IF \/ \E i, j \in DOMAIN ids : i # j /\ ids[i] = ids[j]
          \/ mode = "raise" /\ \E n \in DOMAIN ids : ids[n] \in held
       THEN [raised |-> TRUE, collection |-> coll]
       ELSE [raised |-> FALSE,
             collection |->
                 coll \cup {[id |-> ids[n], file_path |-> code_units[n].file_path,
                             content |-> code_units[n].content] :
                            n \in {k \in DOMAIN ids : ids[k] \notin held}}]

\* what an operation returns or raises
Stats(total_code_units) == [error |-> None, total_code_units |-> total_code_units]

Raised(error) == [error |-> error, total_code_units |-> 0]

\* an operation's result, the calls it made and the collection after it
Outcome(result, parsed, embedded, added, coll) ==
    [result |-> result, parse_calls |-> parsed, embed_calls |-> embedded,
     add_calls |-> added, collection |-> coll]

\* the end of index_file and index_directory: generate_embeddings_batch
\* (which returns one vector per text and never raises), then add_code_units
embed_and_store(coll, mode, code_units, parsed) ==
    Outcome(IF add_code_units(coll, mode, code_units).raised
            THEN Raised("collection.add")
            ELSE Stats(Len(code_units)),
            parsed, <<code_units>>, <<code_units>>,
            add_code_units(coll, mode, code_units).collection)

\* a mutant of index_file: the file is parsed before the suffix is looked up
index_file_parse_first(files, coll, mode, p) ==
    IF ~files[p].exists
    THEN Outcome(Raised("File does not exist"), <<>>, <<>>, <<>>, coll)
    ELSE IF ~has_parser(p.suffix)
    THEN Outcome(Raised("Unsupported file type"), <<p>>, <<>>, <<>>, coll)
    ELSE IF parse_file(files, p) = <<>>
    THEN Outcome(Stats(0), <<p>>, <<>>, <<>>, coll)
    ELSE embed_and_store(coll, mode, parse_file(files, p), <<p>>)

\* CodeIndexer.index_file
index_file(files, coll, mode, p) ==
    IF ~files[p].exists
    THEN Outcome(Raised("File does not exist"), <<>>, <<>>, <<>>, coll)
    ELSE IF ~has_parser(p.suffix)
    THEN Outcome(Raised("Unsupported file type"), <<>>, <<>>, <<>>, coll)
    ELSE IF parse_file(files, p) = <<>>
    THEN Outcome(Stats(0), <<p>>, <<>>, <<>>, coll)
    ELSE embed_and_store(coll, mode, parse_file(files, p), <<p>>)

\* supported_files: for each key of extension_map the files rglob finds
RECURSIVE supported_from(_, _)
supported_from(files, i) ==
    LET listed(p) == files[p].exists /\ p.suffix = Extensions[i] IN
    IF i > Len(Extensions) THEN <<>>
    ELSE SelectSeq(Tree, listed) \o supported_from(files, i + 1)

supported_files(files) == supported_from(files, 1)

\* the files of supported_files the loop does not skip
parsed_files(files) ==
    LET kept(p) == ~skipped(p) /\ has_parser(p.suffix) IN
    SelectSeq(supported_files(files), kept)

\* a mutant of the loop: a failing file ends it
RECURSIVE all_code_units_until_failure(_, _)
all_code_units_until_failure(files, paths) ==
    IF paths = <<>> \/ files[Head(paths)].fails THEN <<>>
    ELSE parse_file(files, Head(paths)) \o all_code_units_until_failure(files, Tail(paths))

\* all_code_units after the loop over the files
RECURSIVE all_code_units(_, _)
all_code_units(files, paths) ==
    IF paths = <<>> THEN <<>>
    ELSE parse_file(files, Head(paths)) \o all_code_units(files, Tail(paths))

\* CodeIndexer.index_directory on the directory that holds the files, and
\* on a path that does not exist
index_directory(files, coll, mode, directory_exists) ==
    IF ~directory_exists
    THEN Outcome(Raised("Directory does not exist"), <<>>, <<>>, <<>>, coll)
    ELSE IF all_code_units(files, parsed_files(files)) = <<>>
    THEN Outcome(Stats(0), parsed_files(files), <<>>, <<>>, coll)
    ELSE embed_and_store(coll, mode, all_code_units(files, parsed_files(files)),
                         parsed_files(files))

\* no operation has returned yet
NoResult == [error |-> None, total_code_units |-> -1]

\* the path of an operation on the directory
NoPath == Path(<<>>, "")

IndexInit ==
    /\ fs \in {f \in [Paths -> {Missing, Failing} \cup {File(x) : x \in Extractions}] :
                  \A p \in Paths : f[p] \in FileStatesOf(p)}
    /\ collection = {}
    /\ store_mode \in {"ignore", "raise"}
    /\ parse_calls = <<>>
    /\ embed_calls = <<>>
    /\ add_calls = <<>>
    /\ index_result = NoResult
    /\ history = <<>>
    /\ index_pc = "start"

\* no file is being indexed
IndexIdle ==
    /\ fs = [p \in Paths |-> Missing]
    /\ collection = {}
    /\ store_mode = "ignore"
    /\ parse_calls = <<>>
    /\ embed_calls = <<>>
    /\ add_calls = <<>>
    /\ index_result = NoResult
    /\ history = <<>>
    /\ index_pc = "idle"

\* the state after an operation with outcome out
Finish(op, p, out) ==
    /\ index_result' = out.result
    /\ parse_calls' = out.parse_calls
    /\ embed_calls' = out.embed_calls
    /\ add_calls' = out.add_calls
    /\ collection' = out.collection
    /\ history' = Append(history, [op |-> op, path |-> p,
                                   units |-> IF out.embed_calls = <<>> THEN <<>>
                                             ELSE out.embed_calls[1]])
    /\ index_pc' = IF index_pc = "start" THEN "indexed" ELSE "reindexed"
    /\ UNCHANGED <<fs, store_mode>>
    /\ UNCHANGED notIndex

\* CodeIndexer.index_file(file_path)
IndexFile ==
    /\ index_pc \in {"start", "changed"}
    /\ \E p \in Paths :
          Finish("index_file", p, index_file(fs, collection, store_mode, p))

\* CodeIndexer.index_directory(directory_path)
IndexDirectory ==
    /\ index_pc \in {"start", "changed"}
    /\ \E directory_exists \in BOOLEAN :
          Finish(IF directory_exists THEN "index_directory" ELSE "index_missing_directory",
                 NoPath, index_directory(fs, collection, store_mode, directory_exists))

\* the user edits a source file between two indexing runs
ChangeFile ==
    /\ index_pc = "indexed"
    /\ \E p \in Paths, s \in ({Failing} \cup {File(x) : x \in Extractions}) :
          /\ fs[p].exists
          /\ has_parser(p.suffix) /\ ~skipped(p)
          /\ s # fs[p]
          /\ fs' = [fs EXCEPT ![p] = s]
          /\ history' = Append(history, [op |-> "change", path |-> p, units |-> <<>>])
    /\ index_pc' = "changed"
    /\ UNCHANGED <<collection, store_mode, parse_calls, embed_calls, add_calls, index_result>>
    /\ UNCHANGED notIndex

IndexNext == IndexFile \/ IndexDirectory \/ ChangeFile

----------------------------------------------------------------------------
(* GenerationService, and SemanticSearch.summarize_results *)

\* results[:5] and document[:500] of generate_summary
MaxSummaryResults == 5

MaxCodeChars == 500

\* provider_order
ProviderOrder == <<"gemini", "openai", "openrouter">>

ProviderNames == Range(ProviderOrder)

\* _create_fallback_chain: the providers of provider_order other than the
\* current one for which an API key is configured
create_fallback_chain(current_provider, configured) ==
    LET usable(p) == p # current_provider /\ p \in configured IN
    SelectSeq(ProviderOrder, usable)

\* a text: a fixed message, or what a provider generated for a prompt
NoPrompt == [query |-> <<>>, context |-> <<>>]

FixedText(message) == [message |-> message, by |-> None, prompt |-> NoPrompt]

Generated(provider, prompt) == [message |-> "generated", by |-> provider, prompt |-> prompt]

\* a search result as generate_summary reads it: metadata["name"] (None
\* when there is no metadata or no name) and the length of the document
SummaryInput(name, document) == [name |-> name, document |-> document]

\* the prompt: the query and, for the first five results, the position, the
\* name and the first 500 characters of the code
prompt_of(q, result_list) ==
    [query |-> q,
     context |->
        [i \in 1..Min(Len(result_list), MaxSummaryResults) |->
            [index |-> i,
             name |-> IF result_list[i].name = None THEN "Unknown"
                      ELSE result_list[i].name,
             code |-> Min(result_list[i].document, MaxCodeChars)]]]

\* the position of the first fallback provider that does not raise
first_working(fallbacks, failing) ==
    CHOOSE i \in DOMAIN fallbacks :
        /\ fallbacks[i] \notin failing
        /\ \A j \in 1..(i - 1) : fallbacks[j] \in failing

\* a mutant of _generate_with_fallback: no text when every provider failed
generate_without_final_text(provider, fallbacks, failing, prompt) ==
    LET working == {i \in DOMAIN fallbacks : fallbacks[i] \notin failing} IN
    IF provider \notin failing
    THEN [text |-> Generated(provider, prompt), provider |-> provider,
          calls |-> <<provider>>]
    ELSE IF working = {}
    THEN [text |-> FixedText("raised"), provider |-> provider,
          calls |-> <<provider>> \o fallbacks]
    ELSE [text |-> Generated(fallbacks[first_working(fallbacks, failing)], prompt),
          provider |-> fallbacks[first_working(fallbacks, failing)],
          calls |-> <<provider>> \o SubSeq(fallbacks, 1, first_working(fallbacks, failing))]

\* GenerationService._generate_with_fallback: the text, self.provider after
\* the call and the providers called, when the providers of failing raise
generate_with_fallback(provider, fallbacks, failing, prompt) ==
    LET working == {i \in DOMAIN fallbacks : fallbacks[i] \notin failing} IN
    IF provider \notin failing
    THEN [text |-> Generated(provider, prompt), provider |-> provider,
          calls |-> <<provider>>]
    ELSE IF working = {}
    THEN [text |-> FixedText("Error: Could not generate summary due to provider failures."),
          provider |-> provider, calls |-> <<provider>> \o fallbacks]
    ELSE [text |-> Generated(fallbacks[first_working(fallbacks, failing)], prompt),
          provider |-> fallbacks[first_working(fallbacks, failing)],
          calls |-> <<provider>> \o SubSeq(fallbacks, 1, first_working(fallbacks, failing))]

\* GenerationService.generate_summary
generate_summary(q, result_list, provider, fallbacks, failing) ==
    IF result_list = <<>>
    THEN [text |-> FixedText("No results found to summarize."), provider |-> provider,
          calls |-> <<>>]
    ELSE generate_with_fallback(provider, fallbacks, failing, prompt_of(q, result_list))

\* most calls of summarize_results
MaxSummaries == 2

\* the result lists to summarize: none, one, or more than five results
SummaryInputs ==
    {<<>>}
    \cup {[i \in 1..n |-> SummaryInput(name, document)] :
            n \in {1, MaxSummaryResults + 1}, name \in {None, "f"},
            document \in {0, MaxCodeChars + 1}}

\* no summary has been returned
NoText == FixedText("")

GenInit ==
    /\ gen_provider \in ProviderNames
    /\ \E configured \in SUBSET ProviderNames :
          /\ gen_provider \in configured
          /\ gen_fallbacks = create_fallback_chain(gen_provider, configured)
    /\ gen_query \in {<<"q">>}
    /\ gen_results0 \in SummaryInputs
    /\ gen_results = gen_results0
    /\ gen_summary = NoText
    /\ gen_calls = <<>>
    /\ gen_failing = {}
    /\ summaries = 0

\* no summary is asked for
GenIdle ==
    /\ gen_provider = "gemini"
    /\ gen_fallbacks = <<>>
    /\ gen_query = <<>>
    /\ gen_results0 = <<>>
    /\ gen_results = <<>>
    /\ gen_summary = NoText
    /\ gen_calls = <<>>
    /\ gen_failing = {}
    /\ summaries = MaxSummaries

\* SemanticSearch.summarize_results(query, results) while the providers of
\* failing raise
SummarizeResults ==
    /\ summaries < MaxSummaries
    /\ \E failing \in SUBSET ProviderNames :
          /\ gen_failing' = failing
          /\ gen_summary' =
                generate_summary(gen_query, gen_results, gen_provider, gen_fallbacks,
                                 failing).text
          /\ gen_provider' =
                generate_summary(gen_query, gen_results, gen_provider, gen_fallbacks,
                                 failing).provider
          /\ gen_calls' =
                generate_summary(gen_query, gen_results, gen_provider, gen_fallbacks,
                                 failing).calls
    /\ summaries' = summaries + 1
    /\ UNCHANGED <<gen_fallbacks, gen_query, gen_results0, gen_results>>
    /\ UNCHANGED notGen

GenNext == SummarizeResults

----------------------------------------------------------------------------
(* ConceptDetector *)

\* ConceptDetector.CONCEPT_PATTERNS, in the order of the dict: for each
\* concept the cue strings of every language that has a cue list
ConceptPatterns ==
    <<
    <<"async_operation",
      [python |->
            <<<<"a", "s", "y", "n", "c", " ", "d", "e", "f">>,
              <<"a", "w", "a", "i", "t", " ">>,
              <<"a", "s", "y", "n", "c", "i", "o">>>>,
         javascript |->
            <<<<"a", "s", "y", "n", "c", " ", "f", "u", "n", "c", "t", "i", "o", "n">>,
              <<"a", "s", "y", "n", "c", " ", "(">>,
              <<"a", "w", "a", "i", "t", " ">>,
              <<"P", "r", "o", "m", "i", "s", "e">>>>,
         java |->
            <<<<"C", "o", "m", "p", "l", "e", "t", "a", "b", "l", "e", "F", "u", "t", "u", "r", "e">>,
              <<"a", "s", "y", "n", "c">>,
              <<"F", "u", "t", "u", "r", "e", "<">>>>,
         go |->
            <<<<"g", "o", " ", "f", "u", "n", "c">>,
              <<"g", "o", "r", "o", "u", "t", "i", "n", "e">>,
              <<"c", "h", "a", "n", " ">>>>]>>,
    <<"thread_creation",
      [python |->
            <<<<"t", "h", "r", "e", "a", "d", "i", "n", "g", ".", "T", "h", "r", "e", "a", "d">>,
              <<"T", "h", "r", "e", "a", "d", "(">>>>,
         javascript |->
            <<<<"n", "e", "w", " ", "W", "o", "r", "k", "e", "r", "(">>,
              <<"w", "o", "r", "k", "e", "r", ".", "p", "o", "s", "t", "M", "e", "s", "s", "a", "g", "e">>>>,
         java |->
            <<<<"n", "e", "w", " ", "T", "h", "r", "e", "a", "d", "(">>,
              <<"T", "h", "r", "e", "a", "d", ".", "s", "t", "a", "r", "t">>>>,
         go |->
            <<<<"g", "o", " ", "f", "u", "n", "c", "(">>>>]>>,
    <<"synchronization",
      [python |->
            <<<<"t", "h", "r", "e", "a", "d", "i", "n", "g", ".", "L", "o", "c", "k">>,
              <<"t", "h", "r", "e", "a", "d", "i", "n", "g", ".", "R", "L", "o", "c", "k">>,
              <<"S", "e", "m", "a", "p", "h", "o", "r", "e">>>>,
         javascript |->
            <<<<"A", "t", "o", "m", "i", "c", "s", ".">>,
              <<"S", "h", "a", "r", "e", "d", "A", "r", "r", "a", "y", "B", "u", "f", "f", "e", "r">>>>,
         java |->
            <<<<"s", "y", "n", "c", "h", "r", "o", "n", "i", "z", "e", "d">>,
              <<"R", "e", "e", "n", "t", "r", "a", "n", "t", "L", "o", "c", "k">>,
              <<"S", "e", "m", "a", "p", "h", "o", "r", "e">>>>,
         go |->
            <<<<"s", "y", "n", "c", ".", "M", "u", "t", "e", "x">>,
              <<"s", "y", "n", "c", ".", "R", "W", "M", "u", "t", "e", "x">>,
              <<"s", "y", "n", "c", ".", "W", "a", "i", "t", "G", "r", "o", "u", "p">>>>]>>,
    <<"database_query",
      [python |->
            <<<<"c", "u", "r", "s", "o", "r", ".", "e", "x", "e", "c", "u", "t", "e">>,
              <<"d", "b", ".", "q", "u", "e", "r", "y">>,
              <<"S", "E", "L", "E", "C", "T", " ">>,
              <<"I", "N", "S", "E", "R", "T", " ">>,
              <<"U", "P", "D", "A", "T", "E", " ">>>>,
         javascript |->
            <<<<"d", "b", ".", "q", "u", "e", "r", "y">>,
              <<"e", "x", "e", "c", "u", "t", "e", "(">>,
              <<"S", "E", "L", "E", "C", "T", " ">>,
              <<"f", "i", "n", "d", "O", "n", "e">>,
              <<"f", "i", "n", "d", "(">>>>,
         java |->
            <<<<"e", "x", "e", "c", "u", "t", "e", "Q", "u", "e", "r", "y">>,
              <<"e", "x", "e", "c", "u", "t", "e", "U", "p", "d", "a", "t", "e">>,
              <<"P", "r", "e", "p", "a", "r", "e", "d", "S", "t", "a", "t", "e", "m", "e", "n", "t">>>>,
         go |->
            <<<<"d", "b", ".", "Q", "u", "e", "r", "y">>,
              <<"d", "b", ".", "E", "x", "e", "c">>,
              <<"Q", "u", "e", "r", "y", "R", "o", "w">>>>]>>,
    <<"file_io",
      [python |->
            <<<<"o", "p", "e", "n", "(">>,
              <<"f", "i", "l", "e", ".", "r", "e", "a", "d">>,
              <<"f", "i", "l", "e", ".", "w", "r", "i", "t", "e">>,
              <<"w", "i", "t", "h", " ", "o", "p", "e", "n">>>>,
         javascript |->
            <<<<"f", "s", ".", "r", "e", "a", "d">>,
              <<"f", "s", ".", "w", "r", "i", "t", "e">>,
              <<"r", "e", "a", "d", "F", "i", "l", "e">>,
              <<"w", "r", "i", "t", "e", "F", "i", "l", "e">>>>,
         java |->
            <<<<"F", "i", "l", "e", "R", "e", "a", "d", "e", "r">>,
              <<"F", "i", "l", "e", "W", "r", "i", "t", "e", "r">>,
              <<"B", "u", "f", "f", "e", "r", "e", "d", "R", "e", "a", "d", "e", "r">>>>,
         go |->
            <<<<"o", "s", ".", "O", "p", "e", "n">>,
              <<"i", "o", "u", "t", "i", "l", ".", "R", "e", "a", "d", "F", "i", "l", "e">>,
              <<"o", "s", ".", "C", "r", "e", "a", "t", "e">>>>]>>,
    <<"network_request",
      [python |->
            <<<<"r", "e", "q", "u", "e", "s", "t", "s", ".">>,
              <<"u", "r", "l", "l", "i", "b">>,
              <<"h", "t", "t", "p", ".", "c", "l", "i", "e", "n", "t">>,
              <<"a", "i", "o", "h", "t", "t", "p">>>>,
         javascript |->
            <<<<"f", "e", "t", "c", "h", "(">>,
              <<"a", "x", "i", "o", "s">>,
              <<"h", "t", "t", "p", ".", "g", "e", "t">>,
              <<"X", "M", "L", "H", "t", "t", "p", "R", "e", "q", "u", "e", "s", "t">>>>,
         java |->
            <<<<"H", "t", "t", "p", "C", "l", "i", "e", "n", "t">>,
              <<"H", "t", "t", "p", "U", "R", "L", "C", "o", "n", "n", "e", "c", "t", "i", "o", "n">>,
              <<"R", "e", "s", "t", "T", "e", "m", "p", "l", "a", "t", "e">>>>,
         go |->
            <<<<"h", "t", "t", "p", ".", "G", "e", "t">>,
              <<"h", "t", "t", "p", ".", "P", "o", "s", "t">>,
              <<"h", "t", "t", "p", ".", "C", "l", "i", "e", "n", "t">>>>]>>,
    <<"error_handling",
      [python |->
            <<<<"t", "r", "y", ":">>,
              <<"e", "x", "c", "e", "p", "t", " ">>,
              <<"r", "a", "i", "s", "e", " ">>,
              <<"f", "i", "n", "a", "l", "l", "y", ":">>>>,
         javascript |->
            <<<<"t", "r", "y", " ", "{">>,
              <<"c", "a", "t", "c", "h", " ", "(">>,
              <<"t", "h", "r", "o", "w", " ">>,
              <<"f", "i", "n", "a", "l", "l", "y", " ", "{">>>>,
         java |->
            <<<<"t", "r", "y", " ", "{">>,
              <<"c", "a", "t", "c", "h", " ", "(">>,
              <<"t", "h", "r", "o", "w", " ">>,
              <<"t", "h", "r", "o", "w", "s", " ">>>>,
         go |->
            <<<<"i", "f", " ", "e", "r", "r", " ", "!", "=", " ", "n", "i", "l">>,
              <<"e", "r", "r", "o", "r">>,
              <<"p", "a", "n", "i", "c", "(">>,
              <<"r", "e", "c", "o", "v", "e", "r", "(", ")">>>>]>>,
    <<"loop_iteration",
      [python |->
            <<<<"f", "o", "r", " ">>,
              <<"w", "h", "i", "l", "e", " ">>>>,
         javascript |->
            <<<<"f", "o", "r", " ", "(">>,
              <<"w", "h", "i", "l", "e", " ", "(">>,
              <<"f", "o", "r", "E", "a", "c", "h">>,
              <<".", "m", "a", "p", "(">>>>,
         java |->
            <<<<"f", "o", "r", " ", "(">>,
              <<"w", "h", "i", "l", "e", " ", "(">>,
              <<"f", "o", "r", "E", "a", "c", "h">>>>,
         go |->
            <<<<"f", "o", "r", " ">>,
              <<"r", "a", "n", "g", "e", " ">>>>]>>,
    <<"array_operation",
      [python |->
            <<<<".", "a", "p", "p", "e", "n", "d", "(">>,
              <<".", "e", "x", "t", "e", "n", "d", "(">>,
              <<".", "p", "o", "p", "(">>,
              <<"l", "i", "s", "t", "[">>>>,
         javascript |->
            <<<<".", "p", "u", "s", "h", "(">>,
              <<".", "p", "o", "p", "(">>,
              <<".", "s", "l", "i", "c", "e", "(">>,
              <<".", "s", "p", "l", "i", "c", "e", "(">>>>,
         java |->
            <<<<".", "a", "d", "d", "(">>,
              <<".", "r", "e", "m", "o", "v", "e", "(">>,
              <<"A", "r", "r", "a", "y", "L", "i", "s", "t">>,
              <<"A", "r", "r", "a", "y", "s", ".">>>>,
         go |->
            <<<<"a", "p", "p", "e", "n", "d", "(">>,
              <<"m", "a", "k", "e", "(", "[", "]">>,
              <<"s", "l", "i", "c", "e">>>>]>>,
    <<"map_operation",
      [python |->
            <<<<"d", "i", "c", "t", "[">>,
              <<".", "g", "e", "t", "(">>,
              <<".", "k", "e", "y", "s", "(">>,
              <<".", "v", "a", "l", "u", "e", "s", "(">>>>,
         javascript |->
            <<<<"M", "a", "p", "(">>,
              <<".", "s", "e", "t", "(">>,
              <<".", "g", "e", "t", "(">>,
              <<"O", "b", "j", "e", "c", "t", ".", "k", "e", "y", "s">>>>,
         java |->
            <<<<"H", "a", "s", "h", "M", "a", "p">>,
              <<".", "p", "u", "t", "(">>,
              <<".", "g", "e", "t", "(">>,
              <<"M", "a", "p", "<">>>>,
         go |->
            <<<<"m", "a", "p", "[">>,
              <<"m", "a", "k", "e", "(", "m", "a", "p">>>>]>>
    >>

UpperCase == <<"A", "B", "C", "D", "E", "F", "G", "H", "I", "J", "K", "L", "M",
               "N", "O", "P", "Q", "R", "S", "T", "U", "V", "W", "X", "Y", "Z">>

LowerCase == <<"a", "b", "c", "d", "e", "f", "g", "h", "i", "j", "k", "l", "m",
               "n", "o", "p", "q", "r", "s", "t", "u", "v", "w", "x", "y", "z">>

\* str.lower() of one character
lower_char(c) ==
    IF \E i \in DOMAIN UpperCase : UpperCase[i] = c
    THEN LowerCase[CHOOSE i \in DOMAIN UpperCase : UpperCase[i] = c]
    ELSE c

\* code.lower()
str_lower(s) == [i \in DOMAIN s |-> lower_char(s[i])]

\* text ends with pattern
EndsWith(pattern, text) ==
    /\ Len(pattern) <= Len(text)
    /\ SubSeq(text, Len(text) - Len(pattern) + 1, Len(text)) = pattern

\* pattern in text
Contains(pattern, text) ==
    \E p \in 0..(Len(text) - Len(pattern)) : SubSeq(text, p + 1, p + Len(pattern)) = pattern

\* the test of one cue against the code
cue_occurs(pattern, code) ==
    Contains(str_lower(pattern), str_lower(code)) \/ Contains(pattern, code)

\* a mutant of cue_occurs: the cue has to be the end of the code
cue_at_end(pattern, code) ==
    EndsWith(str_lower(pattern), str_lower(code)) \/ EndsWith(pattern, code)

\* a mutant of detect_concepts: a cue counts only where the code ends
detect_concepts_at_end(code, lang) ==
    {ConceptPatterns[k][1] : k \in
        {k \in DOMAIN ConceptPatterns :
            /\ lang \in DOMAIN ConceptPatterns[k][2]
            /\ \E n \in DOMAIN ConceptPatterns[k][2][lang] :
                  cue_at_end(ConceptPatterns[k][2][lang][n], code)}}

\* ConceptDetector.detect_concepts(code, language): the set the loop builds
\* (the list made of it has no defined order)
ConceptDetector_detect_concepts(code, lang) ==
    {ConceptPatterns[k][1] : k \in
        {k \in DOMAIN ConceptPatterns :
            /\ lang \in DOMAIN ConceptPatterns[k][2]
            /\ \E n \in DOMAIN ConceptPatterns[k][2][lang] :
                  cue_occurs(ConceptPatterns[k][2][lang][n], code)}}

\* longest text, in pieces
MaxPieces == 2

\* pieces of code that hold or make cues when they are put together: "for "
\* and "for (" of loop_iteration, "await " of async_operation in upper case,
\* "Map(" of map_operation
Pieces ==
    {<<"f", "o", "r", " ">>, <<" ">>, <<"(">>, <<"A", "W", "A", "I", "T">>, <<"M", "a", "p">>}

RECURSIVE Flatten(_)
Flatten(ss) == IF ss = <<>> THEN <<>> ELSE Head(ss) \o Flatten(Tail(ss))

Codes == {Flatten(ss) : ss \in SeqUpTo(Pieces, MaxPieces)}

\* three languages of the table, one with no cue list, and a registered
\* language written with a capital
LanguageArgs == {"python", "javascript", "java", "rust", "Python"}

ConceptInit ==
    /\ cd_language \in LanguageArgs
    /\ cd_code_a \in Codes
    /\ cd_code_b \in Codes
    /\ cd_concepts_a = {}
    /\ cd_concepts_ab = {}
    /\ cd_pc = "start"

\* no detection is in progress
ConceptIdle ==
    /\ cd_language = "python"
    /\ cd_code_a = <<>>
    /\ cd_code_b = <<>>
    /\ cd_concepts_a = {}
    /\ cd_concepts_ab = {}
    /\ cd_pc = "idle"

\* ConceptDetector.detect_concepts(A, language)
DetectInA ==
    /\ cd_pc = "start"
    /\ cd_concepts_a' = ConceptDetector_detect_concepts(cd_code_a, cd_language)
    /\ cd_pc' = "a"
    /\ UNCHANGED <<cd_language, cd_code_a, cd_code_b, cd_concepts_ab>>
    /\ UNCHANGED notConcept

\* ConceptDetector.detect_concepts(A + B, language)
DetectInConcatenation ==
    /\ cd_pc = "a"
    /\ cd_concepts_ab' = ConceptDetector_detect_concepts(cd_code_a \o cd_code_b, cd_language)
    /\ cd_pc' = "ab"
    /\ UNCHANGED <<cd_language, cd_code_a, cd_code_b, cd_concepts_a>>
    /\ UNCHANGED notConcept

ConceptNext == DetectInA \/ DetectInConcatenation

----------------------------------------------------------------------------
(* EmbeddingService *)

\* GeminiEmbeddingProvider.get_dimension
GeminiDimension == 768

\* OpenAIEmbeddingProvider._get_model_dimension: the default
OpenAIDimension == 1536

\* the dimension of text-embedding-3-large
OpenAILargeDimension == 3072

\* OpenRouterEmbeddingProvider._dimension
OpenRouterDimension == 1536

\* a mutant of the fallback chain: the providers in reverse order
create_embedding_fallback_chain_reversed(current_provider, configured) ==
    LET usable(p) == p # current_provider /\ p \in configured IN
    SelectSeq(<<"openrouter", "openai", "gemini">>, usable)

\* EmbeddingService._create_fallback_chain: the providers of provider_order
\* other than the configured one for which an API key is set
create_embedding_fallback_chain(current_provider, configured) ==
    LET usable(p) == p # current_provider /\ p \in configured IN
    SelectSeq(<<"gemini", "openai", "openrouter">>, usable)

\* provider.get_dimension()
get_dimension(provider, openai_model) ==
    CASE provider = "gemini" -> GeminiDimension
      [] provider = "openai" ->
            IF openai_model = "text-embedding-3-large" THEN OpenAILargeDimension
            ELSE OpenAIDimension
      [] provider = "openrouter" -> OpenRouterDimension

\* the vector a provider returns for a text: it has the provider's dimension
Embedding(text, provider, openai_model) ==
    [text |-> text, by |-> provider, dim |-> get_dimension(provider, openai_model)]

\* [0.0] * self.provider.get_dimension()
ZeroVector(text, provider, openai_model) ==
    [text |-> text, by |-> "zero", dim |-> get_dimension(provider, openai_model)]

\* one call of generate_embedding: self.provider before it, the attempts
\* that raise during it (attempt 1 asks the primary, attempt 1 + i the i-th
\* fallback provider), the providers it asked in order, the provider whose
\* vector it returned (None when it raised) and self.provider after it
Call(before, failing, tried, by, after) ==
    [before |-> before, failing |-> failing, tried |-> tried, by |-> by, after |-> after]

\* the attempts a call can make
Attempts(fallbacks) == 1..(1 + Len(fallbacks))

\* the first attempt that does not raise
first_success(chain, failing) ==
    CHOOSE k \in DOMAIN chain : k \notin failing /\ \A j \in 1..(k - 1) : j \in failing

\* a mutant of generate_embedding: the working fallback provider does not
\* become the primary
generate_embedding_no_switch(provider, fallbacks, failing) ==
    LET chain == <<provider>> \o fallbacks IN
    IF \A k \in DOMAIN chain : k \in failing
    THEN Call(provider, failing, chain, None, provider)
    ELSE Call(provider, failing, SubSeq(chain, 1, first_success(chain, failing)),
              chain[first_success(chain, failing)], provider)

\* EmbeddingService.generate_embedding while the attempts of failing raise:
\* the primary is asked, then the fallback providers in list order; the first
\* that answers becomes self.provider
generate_embedding(provider, fallbacks, failing) ==
    LET chain == <<provider>> \o fallbacks IN
    IF \A k \in DOMAIN chain : k \in failing
    THEN Call(provider, failing, chain, None, provider)
    ELSE Call(provider, failing, SubSeq(chain, 1, first_success(chain, failing)),
              chain[first_success(chain, failing)],
              chain[first_success(chain, failing)])

\* the positions of the texts in the order the two loops of
\* generate_embeddings_batch visit them: for i in range(0, len(texts),
\* batch_size), for text in texts[i : i + batch_size]
RECURSIVE batch_order(_, _, _)
batch_order(n, batch_size, i) ==
    IF i >= n THEN <<>>
    ELSE [k \in 1..(Min(i + batch_size, n) - i) |-> i + k]
         \o batch_order(n, batch_size, i + batch_size)

\* the calls of generate_embedding for the texts order[j..], when the
\* attempts of failings[text] raise for the text
RECURSIVE batch_calls(_, _, _, _, _)
batch_calls(order, j, provider, fallbacks, failings) ==
    IF j > Len(order) THEN <<>>
    ELSE LET call == generate_embedding(provider, fallbacks, failings[order[j]]) IN
         <<call>> \o batch_calls(order, j + 1, call.after, fallbacks, failings)

\* a mutant of generate_embeddings_batch: a text every provider fails for
\* gets no vector
batch_without_placeholder(order, calls, openai_model) ==
    LET ok(j) == calls[j].by # None
        kept == SelectSeq([j \in DOMAIN calls |-> j], ok)
    IN [k \in DOMAIN kept |-> Embedding(order[kept[k]], calls[kept[k]].by, openai_model)]

\* the list generate_embeddings_batch returns: per call the vector, or the
\* zero vector of the dimension of self.provider
batch_embeddings(order, calls, openai_model) ==
    [j \in DOMAIN calls |->
        IF calls[j].by # None
        THEN Embedding(order[j], calls[j].by, openai_model)
        ELSE ZeroVector(order[j], calls[j].after, openai_model)]

\* VectorStore.add_code_units(code_units, embeddings): the length test
add_length_test(units_len, embeddings) ==
    IF units_len # Len(embeddings) THEN "ValueError" ELSE "added"

\* most texts of one batch
MaxTexts == 2

\* most operations on one service
MaxEmbedOps == 2

BatchSizes == {1, 2}

OpenAIModels == {"text-embedding-3-small", "text-embedding-3-large"}

NoLog == <<>>

\* the outcomes of the attempts of one call: the loop ends with the first
\* attempt that succeeds, so the attempts that fail are the first k of it
FailurePatterns(fallbacks) == {1..k : k \in {0} \cup Attempts(fallbacks)}

EmbedInit ==
    /\ emb_configured \in ProviderNames
    /\ emb_keys \in {keys \in SUBSET ProviderNames : emb_configured \in keys}
    /\ emb_openai_model \in OpenAIModels
    /\ emb_batch_size \in BatchSizes
    /\ emb_provider = emb_configured
    /\ emb_fallbacks = create_embedding_fallback_chain(emb_configured, emb_keys)
    /\ emb_op = "none"
    /\ emb_texts = 0
    /\ emb_log = NoLog
    /\ emb_vectors = <<>>
    /\ emb_raised = FALSE
    /\ emb_add = "none"
    /\ emb_ops = 0

\* no embedding service is in use
EmbedIdle ==
    /\ emb_configured = "gemini"
    /\ emb_keys = {"gemini"}
    /\ emb_openai_model = "text-embedding-3-small"
    /\ emb_batch_size = 1
    /\ emb_provider = "gemini"
    /\ emb_fallbacks = <<>>
    /\ emb_op = "none"
    /\ emb_texts = 0
    /\ emb_log = NoLog
    /\ emb_vectors = <<>>
    /\ emb_raised = FALSE
    /\ emb_add = "none"
    /\ emb_ops = MaxEmbedOps

\* EmbeddingService.generate_embedding(text), also reached through
\* generate_embeddings and generate_query_embedding
GenerateEmbedding ==
    /\ emb_ops < MaxEmbedOps
    /\ \E failing \in FailurePatterns(emb_fallbacks) :
        LET call == generate_embedding(emb_provider, emb_fallbacks, failing) IN
        /\ emb_log' = <<call>>
        /\ emb_provider' = call.after
        /\ emb_raised' = (call.by = None)
        /\ emb_vectors' = IF call.by = None THEN <<>>
                          ELSE <<Embedding(1, call.by, emb_openai_model)>>
    /\ emb_op' = "generate_embedding"
    /\ emb_texts' = 1
    /\ emb_add' = "none"
    /\ emb_ops' = emb_ops + 1
    /\ UNCHANGED <<emb_configured, emb_keys, emb_openai_model, emb_batch_size, emb_fallbacks>>
    /\ UNCHANGED notEmbed

\* embeddings = generate_embeddings_batch(texts) and
\* add_code_units(code_units, embeddings), as index_file and index_directory
\* call them for their non-empty unit list
GenerateEmbeddingsBatch ==
    /\ emb_ops < MaxEmbedOps
    /\ \E n \in 1..MaxTexts : \E failings \in [1..n -> FailurePatterns(emb_fallbacks)] :
        LET order == batch_order(n, emb_batch_size, 0)
            calls == batch_calls(order, 1, emb_provider, emb_fallbacks, failings)
        IN /\ emb_texts' = n
           /\ emb_log' = calls
           /\ emb_provider' = IF calls = <<>> THEN emb_provider ELSE calls[Len(calls)].after
           /\ emb_vectors' = batch_embeddings(order, calls, emb_openai_model)
           /\ emb_add' = add_length_test(n, batch_embeddings(order, calls, emb_openai_model))
    /\ emb_op' = "generate_embeddings_batch"
    /\ emb_raised' = FALSE
    /\ emb_ops' = emb_ops + 1
    /\ UNCHANGED <<emb_configured, emb_keys, emb_openai_model, emb_batch_size, emb_fallbacks>>
    /\ UNCHANGED notEmbed

EmbedNext == GenerateEmbedding \/ GenerateEmbeddingsBatch

----------------------------------------------------------------------------
(* Specifications: one per component; the other components stay idle *)

InitAggOnly ==
    AggInit /\ ScoreIdle /\ IntentIdle /\ SearchIdle /\ ParseIdle /\ IndexIdle
    /\ GenIdle
    /\ ConceptIdle
    /\ EmbedIdle

SpecAgg == InitAggOnly /\ [][AggNext]_vars

InitScoreOnly ==
    ScoreInit /\ AggIdle /\ IntentIdle /\ SearchIdle /\ ParseIdle /\ IndexIdle
    /\ GenIdle
    /\ ConceptIdle
    /\ EmbedIdle

SpecScore == InitScoreOnly /\ [][ScoreNext]_vars

InitIntentOnly ==
    IntentInit /\ AggIdle /\ ScoreIdle /\ SearchIdle /\ ParseIdle /\ IndexIdle
    /\ GenIdle
    /\ ConceptIdle
    /\ EmbedIdle

SpecIntent == InitIntentOnly /\ [][IntentNext]_vars

InitSearchOnly ==
    SearchInit /\ AggIdle /\ ScoreIdle /\ IntentIdle /\ ParseIdle /\ IndexIdle
    /\ GenIdle
    /\ ConceptIdle
    /\ EmbedIdle

SpecSearch == InitSearchOnly /\ [][SearchNext]_vars

InitParseOnly ==
    ParseInit /\ AggIdle /\ ScoreIdle /\ IntentIdle /\ SearchIdle /\ IndexIdle
    /\ GenIdle
    /\ ConceptIdle
    /\ EmbedIdle

SpecParse == InitParseOnly /\ [][ParseNext]_vars

InitIndexOnly ==
    IndexInit /\ AggIdle /\ ScoreIdle /\ IntentIdle /\ SearchIdle /\ ParseIdle
    /\ GenIdle
    /\ ConceptIdle
    /\ EmbedIdle

SpecIndex == InitIndexOnly /\ [][IndexNext]_vars

InitGenOnly ==
    GenInit /\ AggIdle /\ ScoreIdle /\ IntentIdle /\ SearchIdle /\ ParseIdle
    /\ IndexIdle
    /\ ConceptIdle
    /\ EmbedIdle

SpecGen == InitGenOnly /\ [][GenNext]_vars

InitConceptOnly ==
    ConceptInit /\ AggIdle /\ ScoreIdle /\ IntentIdle /\ SearchIdle /\ ParseIdle
    /\ IndexIdle /\ GenIdle
    /\ EmbedIdle

SpecConcept == InitConceptOnly /\ [][ConceptNext]_vars

InitEmbedOnly ==
    EmbedInit /\ AggIdle /\ ScoreIdle /\ IntentIdle /\ SearchIdle /\ ParseIdle
    /\ IndexIdle /\ GenIdle /\ ConceptIdle

SpecEmbed == InitEmbedOnly /\ [][EmbedNext]_vars

\* the two services with a fallback chain: a run uses one of them
InitFallbackOnly == InitEmbedOnly \/ InitGenOnly

FallbackNext == EmbedNext \/ GenNext

SpecFallback == InitFallbackOnly /\ [][FallbackNext]_vars

----------------------------------------------------------------------------
(* Properties of the ResultAggregator *)

\* the text without its leading and trailing whitespace, stated directly
TrimmedText(s) ==
    IF \A k \in DOMAIN s : IsSpace(s[k]) THEN <<>>
    ELSE LET solid == {k \in DOMAIN s : ~IsSpace(s[k])}
             lo == CHOOSE k \in solid : \A m \in solid : k <= m
             hi == CHOOSE k \in solid : \A m \in solid : k >= m
         IN SubSeq(s, lo, hi)

DedupKey(r) == <<r.name, r.type, TrimmedText(r.document)>>

\* the positions of the input list that hold the first result of their key
FirstOccurrences(h) ==
    {i \in DOMAIN h : \A j \in 1..(i - 1) : DedupKey(h[j]) # DedupKey(h[i])}

IsMerged == agg_pc \in {"merged", "aggregated_merged"}

\* C1: _deduplicate returns exactly the first result of every distinct key
\* (name, type, trimmed document), in the order of the input list.
C1_DedupKeepsFirst ==
    agg_pc = "deduplicated" =>
        /\ \A k \in 1..(Len(returned) - 1) : returned[k] < returned[k + 1]
        /\ Range(returned) = FirstOccurrences(results0)
        /\ results = results0

\* a later duplicate that differs from the kept result only in whitespace was
\* dropped, and a result of another key standing between them was kept
C1_Witness ==
    /\ agg_pc = "deduplicated"
    /\ \E i, j, k \in DOMAIN results0 :
        /\ i < j /\ j < k
        /\ DedupKey(results0[i]) = DedupKey(results0[k])
        /\ results0[i].document # results0[k].document
        /\ DedupKey(results0[j]) # DedupKey(results0[i])
        /\ returned = <<i, j>>

Score(x) == results0[x].final_score

\* x is ranked before y: higher score, or equal score and earlier in the
\* deduplicated list
RankedBefore(x, y) == Score(x) > Score(y) \/ (Score(x) = Score(y) /\ x < y)

\* C2: aggregate_results returns the deduplicated results stable-sorted by
\* final_score descending and cut to the first max_results entries; its length
\* is min(max_results, number of distinct keys).
C2_RankedAndTruncated ==
    agg_pc = "aggregated" =>
        /\ Len(returned) = Min(max_results, Cardinality(FirstOccurrences(results0)))
        /\ Range(returned) \subseteq FirstOccurrences(results0)
        /\ \A k \in 1..(Len(returned) - 1) : RankedBefore(returned[k], returned[k + 1])
        /\ \A x \in FirstOccurrences(results0) \ Range(returned) :
               \A y \in Range(returned) : RankedBefore(y, x)

\* a duplicate was dropped, the sort moved a later result to the front, and of
\* two results of equal score the earlier one was kept and the later one cut
C2_Witness ==
    /\ agg_pc = "aggregated"
    /\ max_results = 2
    /\ Len(returned) = 2
    /\ Len(results0) = 4
    /\ Cardinality(FirstOccurrences(results0)) = 3
    /\ returned[1] > returned[2]
    /\ \E x \in FirstOccurrences(results0) \ Range(returned) : Score(x) = Score(returned[2])

\* the members of the list passed to merge_context that lie in the same file
\* and the same 50-line window as x
Bucket(x) ==
    {y \in Range(merge_arg) :
        /\ pre_merge[y].file_path = pre_merge[x].file_path
        /\ pre_merge[y].start_line \div ContextWindow
               = pre_merge[x].start_line \div ContextWindow}

\* the members of x's bucket other than p, in their pre-merge order
RestOfBucket(x, p) ==
    LET other(y) == y \in Bucket(x) /\ y # p IN SelectSeq(merge_arg, other)

ItemOf(y) == [name |-> pre_merge[y].name, type |-> pre_merge[y].type,
              score |-> pre_merge[y].final_score]

\* what the claim says of the bucket of x
MergedAsClaimed(x) ==
    IF Cardinality(Bucket(x)) = 1
    THEN x \in Range(returned) /\ results[x] = pre_merge[x]
    ELSE \E p \in Bucket(x) :
            /\ Range(returned) \cap Bucket(x) = {p}
            /\ \A q \in Bucket(x) : pre_merge[p].final_score >= pre_merge[q].final_score
            /\ results[p].context_size = Cardinality(Bucket(x))
            /\ LET rest == RestOfBucket(x, p) IN
               /\ Len(results[p].context_items) = Min(MaxContextItems, Len(rest))
               /\ \A j \in DOMAIN results[p].context_items :
                      results[p].context_items[j] = ItemOf(rest[j])

MergeInputSorted ==
    \A k \in 1..(Len(merge_arg) - 1) :
        pre_merge[merge_arg[k]].final_score >= pre_merge[merge_arg[k + 1]].final_score

\* C3 as stated: for every input list a multi-member bucket collapses to its
\* highest-scoring member.  The code takes the first member of the bucket, so
\* this fails for a list that is not ordered by score.
C3_Original_AnyInput ==
    IsMerged => \A x \in Range(merge_arg) : MergedAsClaimed(x)

\* C3 (amended): for every input list ordered by final_score non-increasing
\* (as aggregate_results returns it), a singleton bucket passes through
\* unchanged and a multi-member bucket collapses to its highest-scoring member
\* with context_size = bucket size and context_items = (name, type, score) of
\* up to 3 of the other members in pre-merge order.
C3_MergeOfRankedList ==
    (IsMerged /\ MergeInputSorted) => \A x \in Range(merge_arg) : MergedAsClaimed(x)

\* a ranked list with a bucket of five (three context items, one member left
\* out) was merged
C3_Witness ==
    /\ IsMerged
    /\ MergeInputSorted
    /\ \E x \in Range(merge_arg) :
        /\ Cardinality(Bucket(x)) = 5
        /\ x \in Range(returned)
        /\ Len(results[x].context_items) = 3
        /\ \E y \in Bucket(x) : pre_merge[y].final_score < pre_merge[x].final_score

\* a ranked list with a singleton bucket and a two-member bucket was merged
C3_WitnessSingleton ==
    /\ IsMerged
    /\ MergeInputSorted
    /\ \E x, y \in Range(merge_arg) :
        /\ Cardinality(Bucket(x)) = 1
        /\ Cardinality(Bucket(y)) = 2

FileAndWindow(x) ==
    <<pre_merge[x].file_path, pre_merge[x].start_line \div ContextWindow>>

EntrySize(p) == IF results[p].context_size = 0 THEN 1 ELSE results[p].context_size

OthersInFile(x) ==
    {y \in FirstOccurrences(results0) \ {x} : results0[y].file_path = results0[x].file_path}

\* C5 as stated: a result with k other results in its file carries exactly
\* min(3, k) related names.  The code leaves out every result that has the
\* same name, so this fails for two same-named results of one file.
C5_Original_CountsAllOthers ==
    agg_pc = "aggregated" =>
        \A x \in FirstOccurrences(results0) :
            /\ Len(results[x].related_methods) = Min(MaxRelated, Cardinality(OthersInFile(x)))
            /\ \A j \in DOMAIN results[x].related_methods :
                   \E y \in OthersInFile(x) : results0[y].name = results[x].related_methods[j]

\* the other deduplicated results of x's file that have another name
OthersByName(x) == {y \in OthersInFile(x) : results0[y].name # results0[x].name}

\* the position of y among the results of x's file with another name, by
\* final_score descending and, for equal scores, in deduplicated order
RankAmongOthers(x, y) == 1 + Cardinality({z \in OthersByName(x) : RankedBefore(z, y)})

\* C5 (amended): a result whose file group has k other deduplicated results
\* with a name different from its own carries related_methods with exactly
\* min(3, k) names, the names of the k highest-ranked of them, never its own
\* name; a result with k = 0 gets no related_methods.
C5_RelatedByName ==
    agg_pc = "aggregated" =>
        /\ \A x \in FirstOccurrences(results0) :
            /\ Len(results[x].related_methods) = Min(MaxRelated, Cardinality(OthersByName(x)))
            /\ \A j \in DOMAIN results[x].related_methods :
                /\ \E y \in OthersByName(x) :
                       /\ RankAmongOthers(x, y) = j
                       /\ results[x].related_methods[j] = results0[y].name
                /\ results[x].related_methods[j] # results0[x].name
        /\ \A x \in DOMAIN results0 \ FirstOccurrences(results0) :
               results[x].related_methods = <<>>

\* a result with four differently named results in its file got three names,
\* and a result with a same-named neighbour was handled too
C5_Witness ==
    /\ agg_pc = "aggregated"
    /\ \E x \in FirstOccurrences(results0) :
        /\ Cardinality(OthersByName(x)) = 4
        /\ Len(results[x].related_methods) = 3
    /\ \E x \in FirstOccurrences(results0) :
        /\ Cardinality(OthersInFile(x)) > Cardinality(OthersByName(x))
        /\ Len(results[x].related_methods) = 1

----------------------------------------------------------------------------
(* Properties of the ConceptScorer *)

\* the tags of a comma-separated text, stated directly: the trimmed text
\* between two neighbouring separators (or text ends), when it is not empty
TagsOf(text) ==
    {TrimmedText(SubSeq(text, i, j)) :
        <<i, j>> \in {<<i, j>> \in (1..(Len(text) + 1)) \X (0..Len(text)) :
            /\ i <= j + 1
            /\ (i = 1 \/ text[i - 1] = ",")
            /\ (j = Len(text) \/ text[j + 1] = ",")
            /\ \A k \in i..j : text[k] # ","}}
    \ {<<>>}

\* R: the result tags that are known concepts
KnownTags(text) == TagsOf(text) \cap CodeConceptValues

\* C6: calculate_concept_score is the Jaccard similarity |Q n R| / |Q u R| of
\* the query concepts Q and the known result tags R; it lies in [0,1], is 1.0
\* when the result tags are exactly a non-empty Q, and 0.0 when either side is
\* empty or no result tag is a known concept.
C6_JaccardScore ==
    score_pc = "scored" =>
        LET Q == query_concepts
            R == KnownTags(result_concepts)
        IN /\ concept_score >= 0 /\ concept_score <= ScoreScale
           /\ (Q = {} \/ R = {}) => concept_score = 0
           /\ (Q # {} /\ R # {}) =>
                  concept_score * Cardinality(Q \cup R) = ScoreScale * Cardinality(Q \cap R)
           /\ (Q # {} /\ TagsOf(result_concepts) = Q) => concept_score = ScoreScale

\* a text with a padded tag and an unknown tag scored 1/2 against a query
\* set of two concepts
C6_Witness ==
    /\ score_pc = "scored"
    /\ Cardinality(query_concepts) = 2
    /\ \E i \in DOMAIN result_concepts : result_concepts[i] = " "
    /\ <<"x">> \in TagsOf(result_concepts)
    /\ Cardinality(KnownTags(result_concepts)) = 1
    /\ concept_score * 2 = ScoreScale

\* the blend for every pair of scores of the model, stated directly
WeightedSum(sem, con, doc) ==
    sem * SemanticWeight + con * ConceptWeight
    + (IF doc THEN ScoreScale ELSE ScoreScale \div 2) * QualityWeight
    + (ScoreScale \div 2) * RecencyWeight

SemanticScores == {semantic_of(d) : d \in Distances \cup {NoDistance}}

ConceptScores == {(i * ScoreScale) \div u : <<i, u>> \in {<<i, u>> \in (0..3) \X (1..3) : i <= u}}

BlendMonotone ==
    \A doc \in BOOLEAN :
        /\ \A c \in ConceptScores : \A s1, s2 \in SemanticScores :
               s1 <= s2 => boost_score_with_concepts(s1, c, doc)
                               <= boost_score_with_concepts(s2, c, doc)
        /\ \A s1 \in SemanticScores : \A c1, c2 \in ConceptScores :
               c1 <= c2 => boost_score_with_concepts(s1, c1, doc)
                               <= boost_score_with_concepts(s1, c2, doc)

\* C7 as stated: the final score of every hit search() scores lies in [0,1]
\* and the blend is monotone in the semantic and in the concept score.  The
\* blend has no lower clamp and search() passes 1 - distance/2, which is
\* negative for a distance above 2.
C7_Original_FinalInUnitInterval ==
    score_pc = "scored" =>
        /\ final_score >= 0
        /\ final_score <= FinalScale
        /\ BlendMonotone

\* C7, the part that holds: a semantic score in [0,1] gives a final score in
\* [0,1], and the blend is monotone in both scores.
C7_FinalInUnitIntervalForUnitInput ==
    (score_pc = "scored" /\ semantic_score >= 0 /\ semantic_score <= ScoreScale) =>
        /\ final_score >= 0
        /\ final_score <= FinalScale
        /\ final_score = WeightedSum(semantic_score, concept_score, has_docstring)
        /\ BlendMonotone

----------------------------------------------------------------------------
(* Properties of QueryIntent *)

ClassesQuery == any_pattern(ListAllClassesPatterns, lower(query))

FunctionsQuery == any_pattern(ListAllFunctionsPatterns, lower(query))

\* C8: the lower-cased query is tried against the list_all_classes patterns,
\* then the list_all_functions patterns; the first group that matches gives
\* type, filter_type (class / function) and expand_limit = true, otherwise the
\* intent is general with no filter and expand_limit = false.
\* adjust_search_params returns limit 20 iff expand_limit, else default_limit,
\* and a filter exactly when filter_type is set; "list all classes" gives
\* list_all_classes / class / 20.
C8_IntentAndParams ==
    /\ intent_pc \in {"detected", "adjusted"} =>
        /\ ClassesQuery => intent = IntentOf("list_all_classes", "class", TRUE)
        /\ (~ClassesQuery /\ FunctionsQuery) =>
               intent = IntentOf("list_all_functions", "function", TRUE)
        /\ (~ClassesQuery /\ ~FunctionsQuery) => intent = IntentOf("general", None, FALSE)
    /\ intent_pc = "adjusted" =>
        /\ params.limit = IF intent.expand_limit THEN ExpandedLimit ELSE default_limit
        /\ (params.filter_dict = Nothing) <=> (intent.filter_type = None)
        /\ intent.filter_type # None =>
               params.filter_dict = Some({<<"type", intent.filter_type>>})
        /\ query \in {<<"list", "all", "classes">>, <<"List", "all", "CLASSES">>} =>
               /\ intent.type = "list_all_classes"
               /\ params = [limit |-> ExpandedLimit,
                            filter_dict |-> Some({<<"type", "class">>})]

\* a query typed with a capital that matches a class pattern and a function
\* pattern was classified as list_all_classes and given limit 20
C8_Witness ==
    /\ intent_pc = "adjusted"
    /\ ClassesQuery /\ FunctionsQuery
    /\ query # lower(query)
    /\ default_limit # ExpandedLimit
    /\ intent.type = "list_all_classes"
    /\ params.limit = ExpandedLimit

----------------------------------------------------------------------------
(* Properties of SemanticSearch *)

\* the limit search() works with
LimitUsed == IF limit = NoLimit THEN DefaultSearchLimit ELSE limit

\* the filter the store was queried with
FilterUsed ==
    build_filter(file_filter, type_filter, adjust_search_params(search_query, LimitUsed))

\* number of stored units the filter admits
Matching == Cardinality({i \in DOMAIN store : matches_where(store[i], FilterUsed)})

\* every stored unit is a result of its own: no two share a deduplication key
\* or a context window
AllSeparate ==
    \A i, j \in DOMAIN store :
        i # j => /\ DedupKey(store[i]) # DedupKey(store[j])
                 /\ store[i].file_path # store[j].file_path

Enumeration == search_pc = "done" /\ detect_intent(search_query).expand_limit

\* C9: for a query with expand_limit the bound on the number of results is the
\* widened limit 20, through retrieval, aggregation and truncation: a store
\* with at least 20 separate matching units yields 20 results, whatever the
\* caller's limit.
C9_Original_WidenedTo20 ==
    (Enumeration /\ AllSeparate /\ Matching >= ExpandedLimit) =>
        Len(final_results) = ExpandedLimit

\* what search() does for such a query: the store is asked for 20 hits and
\* the list returned is cut to the caller's limit
C9_RetrievedWidenedReturnedCut ==
    Enumeration =>
        /\ retrieved = Min(ExpandedLimit, Matching)
        /\ Len(final_results) <= Min(retrieved, LimitUsed)
        /\ AllSeparate => Len(final_results) = Min(retrieved, LimitUsed)

\* an enumeration query with caller limit 5 on a store of more than 20
\* separate classes retrieved 20 hits and returned 5
C9_Witness ==
    /\ Enumeration /\ AllSeparate
    /\ limit = 5
    /\ retrieved = ExpandedLimit
    /\ Len(final_results) = 5

----------------------------------------------------------------------------
(* Properties of the parsers *)

\* number of lines of the file: one more than its newlines
FileLines == Cardinality({p \in DOMAIN source : source[p] = "\n"}) + 1

\* position of the n-th newline of the file
NthNewline(n) ==
    CHOOSE p \in DOMAIN source :
        source[p] = "\n" /\ Cardinality({q \in 1..p : source[q] = "\n"}) = n

\* the text of the file from the first character of line a to the last
\* character of line b
FileText(a, b) ==
    SubSeq(source,
           IF a = 1 THEN 1 ELSE NthNewline(a - 1) + 1,
           IF b = FileLines THEN Len(source) ELSE NthNewline(b) - 1)

\* C10: every unit an extractor or the statement extractor emits has
\* 1 <= start_line <= end_line <= number of lines of the file, and its content
\* is the text of the lines start_line..end_line of the file
C10_UnitRangeAndContent ==
    \A n \in DOMAIN units :
        /\ 1 <= units[n].start_line
        /\ units[n].start_line <= units[n].end_line
        /\ units[n].end_line <= FileLines
        /\ units[n].content = FileText(units[n].start_line, units[n].end_line)

\* a unit that starts after the first line, spans more than one line and has
\* text, emitted by a brace-matching extractor
C10_Witness ==
    /\ parse_pc = "parsed"
    /\ language # "python"
    /\ \E n \in DOMAIN units :
        /\ 1 < units[n].start_line
        /\ units[n].start_line < units[n].end_line
        /\ units[n].content # <<>>
        /\ Len(units[n].content) < Len(source)

----------------------------------------------------------------------------
(* C11: the end line of a unit of a pattern-based extractor *)

\* the line of position p of the source
LineAt(p) == Cardinality({i \in 1..(p - 1) : source[i] = "\n"}) + 1

\* the first position of line l of the source
LineStart(l) == IF l = 1 THEN 1 ELSE NthNewline(l - 1) + 1

\* opening minus closing braces among the positions from..to of the source
BraceDepth(from, to) ==
    Cardinality({i \in from..to : source[i] = "{"})
    - Cardinality({i \in from..to : source[i] = "}"})

\* the line of the first "}" that brings the depth counted from position
\* from back to zero, the last line of the file when there is none
EndCountedFrom(from) ==
    LET closes == {p \in from..Len(source) :
                      source[p] = "}" /\ BraceDepth(from, p) = 0}
    IN IF closes = {} THEN FileLines
       ELSE LineAt(CHOOSE p \in closes : \A q \in closes : p <= q)

\* the match that produced unit n
MatchOfUnit(n) == MatchesFromPass(language, source, 1)[n]

\* C11 as stated: a unit of the Go or JavaScript extractor whose header ends
\* with an opening brace ends on the line where the brace depth, counted
\* from that brace, first returns to zero, and on the last line of the file
\* when it never does.
C11_Original_EndWhereDepthFromHeaderBraceIsZero ==
    (parse_pc = "parsed" /\ language \in {"go", "javascript"}) =>
        \A n \in DOMAIN units :
            source[MatchOfUnit(n).open_pos] = "{" =>
                units[n].end_line = EndCountedFrom(MatchOfUnit(n).open_pos)

\* What the code computes (C11): the depth is counted from the first
\* character of the line on which the match starts.
C11_EndWhereDepthFromLineStartIsZero ==
    (parse_pc = "parsed" /\ language \in {"go", "javascript"}) =>
        \A n \in DOMAIN units :
            units[n].end_line = EndCountedFrom(LineStart(units[n].start_line))

\* a function with a nested block has been given the line of its own
\* closing brace, two lines below its header
C11_Witness ==
    /\ parse_pc = "parsed"
    /\ language = "go"
    /\ source = Join(<<<<"F", "{">>, <<"{", "}">>, <<"}">>>>, "\n")
    /\ Len(units) = 1
    /\ units[1].start_line = 1
    /\ units[1].end_line = 3

----------------------------------------------------------------------------
(* C12: control-flow keywords are not units *)

\* the headers whose captured name is a control-flow keyword
KeywordHeads == {"K"}

\* a Java file of three lines: a class header, a method whose body is one
\* if block, and the closing brace of the class
ClassWithMethodWithIf ==
    {Join(<<<<c, "{">>, <<m, "{", "x", "{", "}", "}">>, <<"}">>>>, "\n") :
        c \in {"C", "D"}, m \in {"M", "P"}}

\* the type, first and last line of every unit
Ranges == [n \in DOMAIN units |->
              <<units[n].type, units[n].start_line, units[n].end_line>>]

\* C12 as stated: no unit of the Java or JavaScript extractor is named by a
\* control-flow keyword, and a Java class with one method that contains one
\* if block yields one class unit and one method unit, each ending at its
\* own closing brace.
C12_Original_KeywordsSkippedAndExample ==
    (parse_pc = "parsed" /\ language \in {"java", "javascript"}) =>
        /\ \A n \in DOMAIN units : units[n].name \notin KeywordHeads
        /\ (language = "java" /\ source \in ClassWithMethodWithIf) =>
               Ranges = <<<<"class", 1, 3>>, <<"method", 2, 2>>>>

\* What holds (C12): no unit is named by a keyword; the example yields the
\* two units, and the method ends at its own brace when its header begins
\* with a modifier, and is given the class's lines otherwise.
C12_KeywordsSkipped ==
    (parse_pc = "parsed" /\ language \in {"java", "javascript"}) =>
        /\ \A n \in DOMAIN units : units[n].name \notin KeywordHeads
        /\ (language = "java" /\ source \in ClassWithMethodWithIf) =>
               Ranges = IF "P" \in Range(source)
                        THEN <<<<"class", 1, 3>>, <<"method", 2, 2>>>>
                        ELSE <<<<"class", 1, 3>>, <<"method", 1, 3>>>>

\* a file with a keyword header followed by a brace has been parsed, and the
\* example with modifiers has been parsed
C12_Witness ==
    /\ parse_pc = "parsed"
    /\ language = "java"
    /\ \E p \in DOMAIN source : source[p] = "K"
    /\ Len(units) = 1
    /\ units[1].type = "method"

C12_WitnessExample ==
    /\ parse_pc = "parsed"
    /\ language = "java"
    /\ source \in ClassWithMethodWithIf
    /\ "P" \in Range(source)
    /\ Len(units) = 2

----------------------------------------------------------------------------
(* C13: the metadata parse_file adds to every unit *)

\* the keys of the rich metadata
RichKeys == {"imports", "complexity", "has_docs", "param_count"}

\* the first at most MaxImports imports of the file
ImportsPrefix == [i \in 1..Min(Len(file_imports), MaxImports) |-> file_imports[i]]

\* unit n carries the rich metadata of its file and content
CarriesRichMetadata(n) ==
    /\ RichKeys \subseteq DOMAIN units[n].metadata
    /\ units[n].metadata["imports"] = ImportsPrefix
    /\ Len(units[n].metadata["imports"]) <= MaxImports
    /\ units[n].metadata["complexity"] \in 1..MaxComplexity
    /\ units[n].metadata["has_docs"] \in BOOLEAN
    /\ units[n].metadata["param_count"] \in Nat

\* C13 as stated: every unit of every extractor carries the file's imports
\* cut to at most 10, the complexity, the has_docs flag and the param_count.
C13_Original_EveryUnitCarriesRichMetadata ==
    parse_pc = "parsed" => \A n \in DOMAIN units : CarriesRichMetadata(n)

\* What the code does (C13): the units of the Python and JavaScript
\* extractors carry the rich metadata; those of the Java and Go extractors
\* carry none of its keys, only the detected concepts if there are any.
C13_RichMetadataForPythonAndJavaScriptOnly ==
    parse_pc = "parsed" =>
        \A n \in DOMAIN units :
            IF language \in {"python", "javascript"}
            THEN CarriesRichMetadata(n)
            ELSE DOMAIN units[n].metadata \subseteq {"concepts"}

\* a JavaScript unit of a file with more than MaxImports imports carries
\* only the first MaxImports, and a Java unit has been returned
C13_Witness ==
    /\ parse_pc = "parsed"
    /\ language = "javascript"
    /\ Len(file_imports) > MaxImports
    /\ units # <<>>
    /\ Len(units[1].metadata["imports"]) = MaxImports
    /\ units[1].metadata["complexity"] > 1

C13_WitnessJava ==
    /\ parse_pc = "parsed"
    /\ language = "java"
    /\ units # <<>>
    /\ DOMAIN units[1].metadata = {}

----------------------------------------------------------------------------
(* C14, for one file: parse_file returns [] when it caught an exception *)

\* parse_file always returns, and returns no unit when it caught an
\* exception (the file cannot be read, is not Python, or the brace scan
\* indexed past the end of a line)
C14_ParseFileReturnsEmptyOnError ==
    /\ parse_pc \in {"idle", "start", "parsed"}
    /\ (parse_pc = "parsed" /\ parse_error # None) => units = <<>>
    /\ (parse_pc = "parsed" /\ ~readable) => parse_error = "OSError"

C14_WitnessParseFile ==
    /\ parse_pc = "parsed"
    /\ parse_error \in {"OSError", "SyntaxError", "IndexError"}

----------------------------------------------------------------------------
(* C14, C15, C17: the indexer *)

\* the last operation
LastOp == history[Len(history)]

\* an indexing operation has returned or raised
Indexed == index_pc \in {"indexed", "reindexed"}

\* the files of the directory that have an extractor and are not in a
\* skipped directory
Considered == {p \in Paths : fs[p].exists /\ has_parser(p.suffix) /\ ~skipped(p)}

\* the units passed to generate_embeddings_batch by the last operation
Embedded == IF embed_calls = <<>> THEN <<>> ELSE embed_calls[1]

\* name, lines and content of the units of a list
Fields(unit_list) ==
    [n \in DOMAIN unit_list |->
        <<unit_list[n].name, unit_list[n].start_line, unit_list[n].end_line,
          unit_list[n].content>>]

\* the units of file p among those passed to the embedding
EmbeddedOf(p) ==
    LET of_p(cu) == cu.file_path = p IN SelectSeq(Embedded, of_p)

\* C14: index_directory calls parse_file once for every file of the
\* directory that has an extractor and is not in a skipped directory,
\* whether or not the extraction of another file fails; a file whose
\* extraction fails contributes no unit, the units of every other file are
\* passed to generate_embeddings_batch and to add_code_units, and no error
\* of an extraction reaches the caller.
C14_ExtractionFailureDoesNotAbortBatch ==
    (Indexed /\ LastOp.op = "index_directory") =>
        /\ Range(parse_calls) = Considered
        /\ Len(parse_calls) = Cardinality(Considered)
        /\ index_result.error \in {None, "collection.add"}
        /\ add_calls = embed_calls
        /\ Len(embed_calls) <= 1
        /\ \A p \in Considered :
              Fields(EmbeddedOf(p)) = IF fs[p].fails THEN <<>> ELSE Fields(fs[p].units)
        /\ \A n \in DOMAIN Embedded : Embedded[n].file_path \in Considered

\* a directory whose first file fails to parse and whose last file has a
\* unit has been indexed, and the unit has been stored
C14_Witness ==
    /\ Indexed
    /\ LastOp.op = "index_directory"
    /\ fs[Tree[1]].fails
    /\ fs[Tree[3]].exists /\ fs[Tree[3]].units # <<>>
    /\ add_calls # <<>>
    /\ index_result.error = None
    /\ \E r \in collection : r.file_path = Tree[3]

\* C15 as stated: whenever an existing file without a registered extractor
\* is submitted, by itself or in an indexed directory, the caller gets the
\* error.
C15_Original_UnsupportedAlwaysAnError ==
    (/\ Indexed
     /\ \/ /\ LastOp.op = "index_file"
           /\ fs[LastOp.path].exists /\ ~has_parser(LastOp.path.suffix)
        \/ /\ LastOp.op = "index_directory"
           /\ \E p \in Paths : fs[p].exists /\ ~has_parser(p.suffix))
    => index_result.error = "Unsupported file type"

\* C15, for index_file: an existing file without a registered extractor
\* makes index_file raise the error before any call of parse_file, of the
\* embedding service or of the vector store, and nothing of the file is ever
\* stored.
C15_IndexFileRejectsUnsupported ==
    (/\ Indexed
     /\ LastOp.op = "index_file"
     /\ fs[LastOp.path].exists
     /\ ~has_parser(LastOp.path.suffix))
    => /\ index_result.error = "Unsupported file type"
       /\ parse_calls = <<>>
       /\ embed_calls = <<>>
       /\ add_calls = <<>>
       /\ \A r \in collection : r.file_path # LastOp.path

\* index_file has been called on the existing notes file
C15_Witness ==
    /\ Indexed
    /\ LastOp.op = "index_file"
    /\ LastOp.path.suffix = ".md"
    /\ fs[LastOp.path].exists
    /\ index_result.error = "Unsupported file type"

\* a file was indexed with index_file, changed, and indexed again with
\* index_file, and the second call returned its statistics
Reindexed ==
    /\ index_pc = "reindexed"
    /\ history[1].op = "index_file"
    /\ history[2].op = "change"
    /\ history[3].op = "index_file"
    /\ history[1].path = history[3].path
    /\ history[2].path = history[3].path
    /\ history[1].units # <<>>
    /\ index_result.error = None

\* the stored records of file p, as id and content
StoredOf(p) == {<<r.id, r.content>> : r \in {x \in collection : x.file_path = p}}

\* the records the latest extraction of file p would give
LatestOf(p) ==
    {<<<<p, fs[p].units[n].type, fs[p].units[n].name, fs[p].units[n].start_line,
         fs[p].units[n].end_line>>, fs[p].units[n].content>> :
     n \in IF fs[p].fails THEN {} ELSE DOMAIN fs[p].units}

\* C17 as stated: after a file is indexed, changed and indexed again, the
\* store holds exactly the units of the latest extraction of the file.
C17_Original_ReindexSupersedes ==
    Reindexed => StoredOf(LastOp.path) = LatestOf(LastOp.path)

\* What the code does (C17): every record the first indexing stored is
\* still stored, with the content it had then.
C17_EarlierUnitsRemain ==
    Reindexed =>
        \A n \in DOMAIN history[1].units :
            (\A k \in DOMAIN history[1].units :
                k # n => unit_id(history[1].units[k]) # unit_id(history[1].units[n]))
            => <<unit_id(history[1].units[n]), history[1].units[n].content>>
                   \in StoredOf(LastOp.path)

\* a file has been re-indexed after it grew, and the store holds the old and
\* the new unit f
C17_Witness ==
    /\ Reindexed
    /\ Cardinality({r \in collection : r.id[3] = "f"}) = 2

----------------------------------------------------------------------------
(* C16: blank queries *)

\* the query is empty or holds white space only
Blank == \A i \in DOMAIN search_query : search_query[i] = " "

\* C16 as stated: search raises for every blank query, before the embedding
\* service or the vector store is called.
C16_Original_BlankQueryRaises ==
    (search_pc \in {"done", "raised"} /\ Blank) =>
        search_pc = "raised" /\ search_calls = <<>>

\* What the code does (C16): the empty query raises before any call; every
\* other query, a query of white space included, is embedded and searched.
C16_OnlyEmptyQueryRaises ==
    search_pc \in {"done", "raised"} =>
        IF search_query = <<>>
        THEN search_pc = "raised" /\ search_calls = <<>>
        ELSE /\ search_pc = "done"
             /\ search_calls = <<"generate_query_embedding", "vector_store.search">>

\* a query of white space has been searched for
C16_Witness ==
    /\ search_pc = "done"
    /\ search_query = <<" ">>
    /\ search_calls # <<>>

C16_WitnessEmpty ==
    /\ search_pc = "raised"
    /\ search_query = <<>>

----------------------------------------------------------------------------
(* C18: summaries *)

\* the messages generate_summary returns without a provider's text
NoResultsMessage == "No results found to summarize."

ProviderFailureMessage == "Error: Could not generate summary due to provider failures."

\* every provider of the service raised during the last call
AllProvidersFailed == ({gen_provider} \cup Range(gen_fallbacks)) \subseteq gen_failing

\* C18: summarize_results leaves the result list as it was given; it always
\* returns a text: the fixed message, without asking any provider, when the
\* list is empty; the failure message when the primary and every fallback
\* provider raised, after asking each of them; and otherwise the text of the
\* first provider that did not raise, for a prompt made of at most the first
\* five results.
C18_SummaryNeverRaisesNorModifies ==
    summaries > 0 /\ gen_query # <<>> =>
        /\ gen_results = gen_results0
        /\ gen_summary.message \in {NoResultsMessage, ProviderFailureMessage, "generated"}
        /\ gen_results = <<>> =>
              gen_summary.message = NoResultsMessage /\ gen_calls = <<>>
        /\ (gen_results # <<>> /\ AllProvidersFailed) =>
              /\ gen_summary.message = ProviderFailureMessage
              /\ gen_calls = <<gen_provider>> \o gen_fallbacks
        /\ (gen_results # <<>> /\ ~AllProvidersFailed) =>
              /\ gen_summary.message = "generated"
              /\ gen_summary.by = gen_provider
              /\ gen_summary.by \notin gen_failing
              /\ gen_calls[Len(gen_calls)] = gen_summary.by
              /\ \A i \in 1..(Len(gen_calls) - 1) : gen_calls[i] \in gen_failing
              /\ Len(gen_summary.prompt.context) = Min(Len(gen_results), MaxSummaryResults)

\* six results were to be summarized, the primary and both fallback
\* providers raised, and the failure message was returned
C18_Witness ==
    /\ summaries > 0
    /\ Len(gen_results) > MaxSummaryResults
    /\ Len(gen_fallbacks) = 2
    /\ AllProvidersFailed
    /\ Len(gen_calls) = 3
    /\ gen_summary.message = ProviderFailureMessage

C18_WitnessEmpty ==
    /\ summaries > 0
    /\ gen_results0 = <<>>
    /\ gen_summary.message = NoResultsMessage

----------------------------------------------------------------------------
(* C19: the aggregator and the caller's result dicts *)

\* the keys aggregate_results and merge_context assign in a result dict
Annotated(r) == r.related_methods # <<>> \/ r.context_size # 0 \/ r.context_items # <<>>

\* r with the assigned keys taken away again
WithoutAnnotations(r) ==
    [r EXCEPT !.related_methods = <<>>, !.context_size = 0, !.context_items = <<>>]

\* C19 as stated: aggregate_results and merge_context leave every result dict
\* of their input as it was given (no key added, no value changed).
C19_Original_InputEntriesUnchanged ==
    /\ agg_pc = "aggregated" => results = results0
    /\ IsMerged => results = pre_merge

\* C19, what the code does: the calls keep the number of result dicts and
\* every key the caller gave, and assign related_methods, context_size and
\* context_items in the caller's own dicts; a second call on the same input
\* returns the same list and leaves the dicts as the first call left them.
C19_AnnotatesInputInPlace ==
    /\ agg_pc \in {"aggregated", "merged", "aggregated_merged"} =>
          /\ DOMAIN results = DOMAIN results0
          /\ \A x \in DOMAIN results : WithoutAnnotations(results[x]) = results0[x]
    /\ agg_pc = "aggregated" =>
          /\ aggregate_results(results, AllRefs(results), max_results) = returned
          /\ aggregate_heap(results, AllRefs(results)) = results
    /\ IsMerged =>
          /\ merge_context(results, merge_arg) = returned
          /\ merge_heap(results, merge_arg) = results

\* aggregate_results has added related_methods to a dict of the caller's list
C19_Witness ==
    /\ agg_pc = "aggregated"
    /\ \E x \in DOMAIN results :
        /\ results0[x].related_methods = <<>>
        /\ results[x].related_methods # <<>>

\* merge_context has added context_size and context_items to a dict of the
\* list it was given
C19_WitnessMerge ==
    /\ IsMerged
    /\ \E x \in DOMAIN results :
        /\ pre_merge[x].context_size = 0
        /\ results[x].context_size > 1
        /\ results[x].context_items # <<>>

----------------------------------------------------------------------------
(* C20: deduplication twice *)

\* C20: _deduplicate applied to the list it returned gives that list again,
\* the same result dicts in the same order.
C20_DeduplicateIdempotent ==
    agg_pc = "deduplicated" => deduplicate(results, returned) = returned

\* a first pass that dropped duplicates, two of one signature among them, and
\* kept results of more than one signature
C20_Witness ==
    /\ agg_pc = "deduplicated"
    /\ Len(returned) >= 2
    /\ Len(returned) + 2 <= Len(results0)
    /\ \E i, j, k \in DOMAIN results0 :
        /\ i < j /\ j < k
        /\ Signature(results0[i]) = Signature(results0[j])
        /\ Signature(results0[j]) = Signature(results0[k])
    /\ deduplicate(results, returned) = returned

----------------------------------------------------------------------------
(* C21: concept detection and concatenation *)

RegisteredLanguages == {"python", "javascript", "java", "go"}

\* C21: every concept detected in A is detected in A + B, and a language
\* without a cue list yields no concept.
C21_DetectionMonotonic ==
    cd_pc = "ab" =>
        /\ cd_concepts_a \subseteq cd_concepts_ab
        /\ cd_language \notin RegisteredLanguages =>
              cd_concepts_a = {} /\ cd_concepts_ab = {}

\* A holds a cue in the middle, B adds a concept whose cue starts in A and
\* ends in B
C21_Witness ==
    /\ cd_pc = "ab"
    /\ cd_code_b # <<>>
    /\ cd_concepts_a # {}
    /\ cd_concepts_ab \ cd_concepts_a # {}
    /\ ConceptDetector_detect_concepts(cd_code_b, cd_language) = {}

\* a language without a cue list, on a text that holds a cue of the others
C21_WitnessUnregistered ==
    /\ cd_pc = "ab"
    /\ cd_language \notin RegisteredLanguages
    /\ ConceptDetector_detect_concepts(cd_code_a, "python") # {}

----------------------------------------------------------------------------
(* C22: the order in which generate_embedding asks the providers *)

\* the providers the service was configured with: the primary and the others
\* that have an API key
ConfiguredProviders == emb_keys

\* the order Gemini, OpenAI, OpenRouter without the configured primary
FallbackOrder ==
    LET other(p) == p # emb_configured /\ p \in emb_keys IN
    SelectSeq(<<"gemini", "openai", "openrouter">>, other)

SingleCall == emb_op = "generate_embedding"

\* a provider that became the primary by a switch
Switched == emb_log # NoLog /\ emb_log[1].before # emb_configured

\* the attempts of the call that asked provider p
AttemptsAt(call, p) == {k \in DOMAIN call.tried : call.tried[k] = p}

\* the call asked the providers of chain in order, up to the first attempt
\* that did not raise
AskedInOrder(call, chain) ==
    /\ call.tried = SubSeq(chain, 1, Len(call.tried))
    /\ \A k \in 1..(Len(call.tried) - 1) : k \in call.failing
    /\ call.by # None => /\ Len(call.tried) \notin call.failing
                         /\ call.by = call.tried[Len(call.tried)]
    /\ call.by = None => call.tried = chain /\ Len(chain) \in call.failing

\* C22 as stated, after any earlier calls: the primary is asked first, then
\* the fallback providers in the order Gemini, OpenAI, OpenRouter; the vector
\* is the first working provider's; the call raises only when every
\* configured provider was asked on that call and raised.
C22_Original_EveryConfiguredProviderTried ==
    SingleCall =>
        LET call == emb_log[1] IN
        /\ AskedInOrder(call, <<call.before>> \o FallbackOrder)
        /\ emb_raised <=> call.by = None
        /\ emb_raised =>
              \A p \in ConfiguredProviders :
                  AttemptsAt(call, p) # {} /\ AttemptsAt(call, p) \subseteq call.failing

\* C22, what the code does: the order and the returned vector are as stated;
\* the call raises exactly when the attempt at the current primary and at
\* every provider of the fallback list raised, and until a switch has
\* happened these are all the configured providers.
C22_PrimaryThenFallbackList ==
    SingleCall =>
        LET call == emb_log[1] IN
        /\ AskedInOrder(call, <<call.before>> \o FallbackOrder)
        /\ emb_raised <=> call.by = None
        /\ (emb_raised /\ ~Switched) =>
              \A p \in ConfiguredProviders :
                  AttemptsAt(call, p) # {} /\ AttemptsAt(call, p) \subseteq call.failing

\* a second call, after a switch, that asked the primary and two fallback
\* providers and returned the last one's vector
C22_Witness ==
    /\ SingleCall
    /\ emb_ops = 2
    /\ Switched
    /\ Len(emb_log[1].tried) = 3
    /\ ~emb_raised

\* a call that raised although the configured primary, switched away from
\* earlier, was not asked
C22_WitnessLostPrimary ==
    /\ SingleCall
    /\ emb_raised
    /\ emb_configured \notin Range(emb_log[1].tried)

----------------------------------------------------------------------------
(* C23: switching to the working provider *)

\* one call of the embedding service, given self.provider before and after
\* the operation it belongs to
EmbedCallAsClaimed(log, j, before_op) ==
    LET call == log[j] IN
    /\ call.before = IF j = 1 THEN before_op ELSE log[j - 1].after
    /\ call.tried[1] = call.before
    /\ 1 \notin call.failing => call.after = call.before /\ call.tried = <<call.before>>
    /\ (1 \in call.failing /\ call.by # None) =>
          /\ call.after = call.by
          /\ \E i \in DOMAIN emb_fallbacks :
                emb_fallbacks[i] = call.by /\ (1 + i) \notin call.failing
    /\ call.by = None => call.after = call.before

\* an operation of the embedding service
EmbedStepAsClaimed ==
    emb_ops' = emb_ops + 1 =>
        /\ emb_fallbacks' = emb_fallbacks
        /\ \A j \in DOMAIN emb_log' : EmbedCallAsClaimed(emb_log', j, emb_provider)
        /\ emb_provider' = emb_log'[Len(emb_log')].after

\* a summary the generation service asked its providers for
GenStepAsClaimed ==
    (summaries' = summaries + 1 /\ gen_calls' # <<>>) =>
        /\ gen_fallbacks' = gen_fallbacks
        /\ gen_calls'[1] = gen_provider
        /\ gen_provider \notin gen_failing' =>
              gen_provider' = gen_provider /\ gen_calls' = <<gen_provider>>
        /\ (gen_provider \in gen_failing' /\ gen_summary'.by # None) =>
              /\ gen_provider' = gen_summary'.by
              /\ gen_provider' \in Range(gen_fallbacks)
              /\ gen_provider' \notin gen_failing'
        /\ gen_summary'.by = None => gen_provider' = gen_provider

\* C23: in both services every call asks the current primary first; when it
\* raises and a fallback provider answers, that provider is the primary from
\* then on; when the primary answers, the primary stays; the fallback chain
\* never changes.
C23_SwitchToWorkingProvider == [][EmbedStepAsClaimed /\ GenStepAsClaimed]_vars

\* the embedding service switched in its first call and the second call got
\* its vector from the new primary at the first attempt
C23_Witness ==
    /\ emb_ops = 2
    /\ SingleCall
    /\ emb_provider # emb_configured
    /\ emb_log[1].before = emb_provider
    /\ emb_log[1].tried = <<emb_provider>>
    /\ emb_log[1].by = emb_provider

\* the same for the generation service: its primary is a provider of its
\* fallback chain, and it answered the second call at once
C23_WitnessGeneration ==
    /\ summaries = 2
    /\ gen_provider \in Range(gen_fallbacks)
    /\ gen_calls = <<gen_provider>>
    /\ gen_summary.by = gen_provider

----------------------------------------------------------------------------
(* C24: one vector per text *)

Batch == emb_op = "generate_embeddings_batch"

\* C24: generate_embeddings_batch does not raise and returns one vector per
\* text, the i-th for the i-th text: the vector of the provider that answered,
\* or a zero vector when every attempt for the text raised; add_code_units
\* then finds as many vectors as units.
C24_OneVectorPerText ==
    Batch =>
        /\ ~emb_raised
        /\ Len(emb_vectors) = emb_texts
        /\ Len(emb_log) = emb_texts
        /\ \A i \in DOMAIN emb_vectors :
              /\ emb_vectors[i].text = i
              /\ emb_vectors[i].by = IF emb_log[i].by = None THEN "zero" ELSE emb_log[i].by
              /\ emb_vectors[i].by = "zero" <=>
                    \A k \in 1..(1 + Len(emb_fallbacks)) : k \in emb_log[i].failing
        /\ emb_add = "added"

\* a batch of two texts, visited in two rounds of the outer loop, with a
\* fallback provider to ask: every attempt failed for the first text and the
\* second text got a vector
C24_Witness ==
    /\ Batch
    /\ emb_texts = 2
    /\ emb_batch_size = 1
    /\ emb_fallbacks # <<>>
    /\ emb_vectors[1].by = "zero"
    /\ emb_vectors[2].by # "zero"
    /\ emb_add = "added"

----------------------------------------------------------------------------
(* C27: the dimensions of the vectors of one batch *)

\* C27 as stated: the vectors of one batch all have the same dimension.
C27_Original_OneDimensionPerBatch ==
    Batch => \A i, j \in DOMAIN emb_vectors : emb_vectors[i].dim = emb_vectors[j].dim

\* C27, what the code does: a vector has the dimension of the provider that
\* answered for its text, a zero vector that of self.provider at the time;
\* the dimensions agree when the same provider is the primary through the
\* whole batch.
C27_DimensionOfTheProviderAtTheTime ==
    Batch =>
        /\ \A i \in DOMAIN emb_vectors :
              emb_vectors[i].dim = get_dimension(emb_log[i].after, emb_openai_model)
        /\ (\A i \in DOMAIN emb_log : emb_log[i].after = emb_log[1].before) =>
              \A i, j \in DOMAIN emb_vectors : emb_vectors[i].dim = emb_vectors[j].dim

\* a batch in which the service switched from Gemini to OpenAI after the
\* first text: a 768-dimensional vector is followed by a 1536-dimensional one
C27_Witness ==
    /\ Batch
    /\ emb_texts = 2
    /\ emb_vectors[1].dim = GeminiDimension
    /\ emb_vectors[2].dim = OpenAIDimension
    /\ emb_vectors[2].by = "openai"

\* a zero vector whose dimension differs from that of a vector of the batch
C27_WitnessZero ==
    /\ Batch
    /\ \E i, j \in DOMAIN emb_vectors :
        /\ emb_vectors[i].by = "zero"
        /\ emb_vectors[j].by # "zero"
        /\ emb_vectors[i].dim # emb_vectors[j].dim

----------------------------------------------------------------------------
(* C25: braces in Java string literals *)

\* a quote that opens or closes a literal: one not written after a backslash
IsDelimiter(line, k) == line[k] = "\"" /\ (k = 1 \/ line[k - 1] # "\\")

\* character k of the line lies inside a string literal
InLiteral(line, k) ==
    Cardinality({j \in 1..(k - 1) : IsDelimiter(line, j)}) % 2 = 1

\* the line holds a brace inside a string literal
HasQuotedBrace(line) ==
    \E k \in DOMAIN line : line[k] \in {"{", "}"} /\ InLiteral(line, k)

\* the brace count of the scanner when it skips what InLiteral says is
\* inside a literal
RECURSIVE ScanOutsideLiterals(_, _, _, _, _)
ScanOutsideLiterals(lines, li, k, brace_count, in_block) ==
    IF li > Len(lines) THEN Len(lines)
    ELSE IF k > Len(lines[li])
         THEN ScanOutsideLiterals(lines, li + 1, 1, brace_count, in_block)
    ELSE IF InLiteral(lines[li], k) \/ lines[li][k] \notin {"{", "}"}
         THEN ScanOutsideLiterals(lines, li, k + 1, brace_count, in_block)
    ELSE IF lines[li][k] = "{"
         THEN ScanOutsideLiterals(lines, li, k + 1, brace_count + 1, TRUE)
    ELSE IF in_block /\ brace_count - 1 = 0 THEN li
         ELSE ScanOutsideLiterals(lines, li, k + 1, brace_count - 1, in_block)

\* a Java file with a brace in a string literal has been parsed
JavaWithQuotedBrace ==
    /\ parse_pc = "parsed"
    /\ language = "java"
    /\ readable
    /\ \E li \in DOMAIN Split(source, "\n") : HasQuotedBrace(Split(source, "\n")[li])

\* the headers the two loops of the Java extractor make units of
JavaMatches == MatchesFromPass("java", source, 1)

\* on every line with a quote the scanner's test line[i - 1], i the number
\* of the line, reads a character that exists and is no backslash, and no
\* quote of the line is written after a backslash
EscapeTestHarmless ==
    \A li \in DOMAIN Split(source, "\n") :
        LET line == Split(source, "\n")[li] IN
        (\E k \in DOMAIN line : line[k] = "\"") =>
            /\ li = 1 \/ (li - 1 <= Len(line) /\ line[li - 1] # "\\")
            /\ \A k \in DOMAIN line : line[k] = "\"" => IsDelimiter(line, k)

\* C25 as stated: whatever line a string literal with a brace is on, the
\* units of the file are extracted and each ends on the line where the braces
\* outside literals close it.
C25_Original_LiteralBracesSkipped ==
    JavaWithQuotedBrace =>
        /\ parse_error = None
        /\ Len(units) = Len(JavaMatches)
        /\ \A n \in DOMAIN units :
              units[n].end_line =
                  ScanOutsideLiterals(Split(source, "\n"), units[n].start_line, 1, 0, FALSE)

\* C25, what the code does: the same, for the files in which the scanner's
\* escape test, made with the number of the line in place of the position of
\* the quote, does no harm.
C25_LiteralBracesSkippedWhereTestHarmless ==
    (JavaWithQuotedBrace /\ EscapeTestHarmless) =>
        /\ parse_error = None
        /\ Len(units) = Len(JavaMatches)
        /\ \A n \in DOMAIN units :
              units[n].end_line =
                  ScanOutsideLiterals(Split(source, "\n"), units[n].start_line, 1, 0, FALSE)

\* a method with the literal "}" in its body, closed by a brace on a later
\* line, found with its real end
C25_Witness ==
    /\ JavaWithQuotedBrace
    /\ EscapeTestHarmless
    /\ \E n \in DOMAIN units : \E li \in DOMAIN Split(source, "\n") :
        /\ units[n].type = "method"
        /\ units[n].start_line < li
        /\ li < units[n].end_line
        /\ HasQuotedBrace(Split(source, "\n")[li])
        /\ units[n].end_line < Len(Split(source, "\n"))

\* a literal on the fifth line of a file makes the escape test read past the
\* end of the line: the file yields no unit
C25_WitnessIndexError ==
    /\ JavaWithQuotedBrace
    /\ parse_error = "IndexError"
    /\ JavaMatches # <<>>
    /\ units = <<>>

\* the literal "\n}" on the third line: its brace closes the method
C25_WitnessEarlyEnd ==
    /\ JavaWithQuotedBrace
    /\ parse_error = None
    /\ \E n \in DOMAIN units :
        units[n].end_line <
            ScanOutsideLiterals(Split(source, "\n"), units[n].start_line, 1, 0, FALSE)

----------------------------------------------------------------------------
(* C26: the storage identity of the units of one file *)

\* what stands for the name of unit n when identities are compared: units of
\* a brace language have the same name when they are made from the same
\* header text (the same position of the file); Python statement units have
\* the same name when they are calls with the same text; any other two units
\* count as differently named
NameOf(n) ==
    IF language = "python"
    THEN <<units[n].name, IF units[n].name \in CallTexts THEN 0 ELSE n>>
    ELSE <<units[n].name, MatchesFromPass(language, source, 1)[n].start_pos>>

\* (type, name, start_line, end_line) of unit n; the file is the same
Identity(n) == <<units[n].type, NameOf(n), units[n].start_line, units[n].end_line>>

\* the id add_code_units would derive is shared
SameIdentity(n, m) == n # m /\ Identity(n) = Identity(m)

\* C26 as stated: no two units of one file share the storage identity.
C26_Original_IdentitiesDistinct ==
    (parse_pc = "parsed" /\ parse_error = None) =>
        \A n, m \in DOMAIN units : ~SameIdentity(n, m)

\* C26, what the code does: the units of a Java or Go file have pairwise
\* different identities; two units of a JavaScript file share one only when
\* both are functions made from the same async arrow function header, and
\* two units of a Python file only when both are calls of the same text on
\* the same line.
C26_IdentitiesDistinctButForDoubleMatches ==
    (parse_pc = "parsed" /\ parse_error = None) =>
        \A n, m \in DOMAIN units :
            SameIdentity(n, m) =>
                \/ /\ language = "javascript"
                   /\ units[n].type = "function"
                   /\ units[n].name = "Y"
                \/ /\ language = "python"
                   /\ units[n].type = "statement"
                   /\ units[n].name \in CallTexts

\* a JavaScript file with an async arrow function: arrow_pattern and
\* arrow_async_pattern both match its header
C26_Witness ==
    /\ parse_pc = "parsed"
    /\ language = "javascript"
    /\ \E n, m \in DOMAIN units : SameIdentity(n, m)

\* a Python file with the same call twice on one line
C26_WitnessPython ==
    /\ parse_pc = "parsed"
    /\ language = "python"
    /\ \E n, m \in DOMAIN units : SameIdentity(n, m)

\* a Java file with a class and a method, and a Go file with two functions on
\* one line: all identities differ
C26_WitnessDistinct ==
    /\ parse_pc = "parsed"
    /\ language \in {"java", "go"}
    /\ Len(units) >= 2
    /\ \E n, m \in DOMAIN units : n # m /\ units[n].start_line = units[m].start_line
    /\ \A n, m \in DOMAIN units : ~SameIdentity(n, m)

----------------------------------------------------------------------------
(* Related names and truncation *)

\* the names of the results of the returned list
ReturnedNames == {results[y].name : y \in Range(returned)}

\* C28 as stated: every name in the related_methods of a returned result is
\* the name of a result of the returned list.  The names are collected from
\* the whole file group before deduplicated[:max_results] is taken, so a name
\* can belong to a result that was cut off.
C28_Original_RelatedAmongReturned ==
    agg_pc = "aggregated" =>
        \A x \in Range(returned) :
            \A j \in DOMAIN results[x].related_methods :
                results[x].related_methods[j] \in ReturnedNames

\* nothing was cut off: max_results is at least the number of deduplicated
\* results
NothingCutOff == Cardinality(FirstOccurrences(results0)) <= max_results

\* C28 (amended): every name in the related_methods of a returned result is
\* the name of another deduplicated result of the same file; that result is
\* in the returned list when max_results is at least the number of
\* deduplicated results, and may have been removed by the truncation otherwise.
C28_RelatedAmongDeduplicated ==
    agg_pc = "aggregated" =>
        \A x \in Range(returned) :
            \A j \in DOMAIN results[x].related_methods :
                \E y \in FirstOccurrences(results0) \ {x} :
                    /\ results0[y].file_path = results0[x].file_path
                    /\ results0[y].name = results[x].related_methods[j]
                    /\ NothingCutOff => y \in Range(returned)

\* a list of two was returned whole, and its first entry names the second
C28_Witness ==
    /\ agg_pc = "aggregated"
    /\ NothingCutOff
    /\ Len(returned) = 2
    /\ results[returned[1]].related_methods = <<results[returned[2]].name>>

\* max_results = 1 cut off the result that the one returned entry names
C28_WitnessCutOff ==
    /\ agg_pc = "aggregated"
    /\ max_results = 1
    /\ Len(returned) = 1
    /\ results[returned[1]].related_methods # <<>>
    /\ results[returned[1]].related_methods[1] \notin ReturnedNames

----------------------------------------------------------------------------
(* Order of the list search returns *)

\* C29: the list search returns is ordered by final_score non-increasing, and
\* every entry has a final_score at least as high as the score of every
\* context item merged into it.
C29_FinalListRanked ==
    search_pc = "done" =>
        /\ \A i \in DOMAIN final_results : \A j \in DOMAIN final_results :
               i < j => final_results[i].final_score >= final_results[j].final_score
        /\ \A k \in DOMAIN final_results :
               \A c \in DOMAIN final_results[k].context_items :
                   final_results[k].final_score >= final_results[k].context_items[c].score

\* a search returned entries of different scores, one of them with a context
\* item of a lower score than its own, after the scoring had changed the
\* order in which the store returned the hits
C29_Witness ==
    /\ search_pc = "done"
    /\ \E i \in DOMAIN final_results : \E j \in DOMAIN final_results :
           final_results[i].final_score > final_results[j].final_score
    /\ \E k \in DOMAIN final_results :
           \E c \in DOMAIN final_results[k].context_items :
               final_results[k].final_score > final_results[k].context_items[c].score

----------------------------------------------------------------------------
(* The filter the vector store is queried with *)

\* the type the intent of the query sets, or None
IntentType == detect_intent(search_query).filter_type

\* the caller gave a file_filter (a path, not the empty string)
CallerFile == file_filter # Nothing /\ file_filter[1] # <<>>

\* the value the where clause gives to a key, as a set (empty without clause
\* or key)
WhereValues(w, key) ==
    IF w = Nothing THEN {} ELSE {p[2] : p \in {q \in w[1] : q[1] = key}}

\* C30: when the caller passes a type_filter and the intent sets a
\* filter_type, the store is queried with the intent's type; a caller's
\* file_filter is kept in the filter in every case; with no filter from the
\* caller and none from the intent the store is queried with no filter.
C30_IntentTypeOverridesCallerType ==
    search_pc = "done" =>
        /\ Len(store_where) = 1
        /\ (type_filter # None /\ IntentType # None) =>
               WhereValues(store_where[1], "type") = {IntentType}
        /\ CallerFile => WhereValues(store_where[1], "file_path") = {file_filter[1]}
        /\ (~CallerFile /\ type_filter = None /\ IntentType = None) =>
               store_where[1] = Nothing

\* a search for classes by a caller who asked for functions of one file
\* queried the store for the classes of that file
C30_Witness ==
    /\ search_pc = "done"
    /\ type_filter = "function"
    /\ IntentType = "class"
    /\ CallerFile
    /\ store_where = <<Some({<<"file_path", file_filter[1]>>, <<"type", "class">>})>>

\* a search without any filter queried the store with None
C30_WitnessNoFilter ==
    /\ search_pc = "done"
    /\ ~CallerFile /\ type_filter = None /\ IntentType = None
    /\ store_where = <<Nothing>>
    /\ retrieved > 0

====
